---- MODULE Spec2Model ----
(***************************************************************************)
(* Model of the MapBiomas mosaic production scripts.                       *)
(*                                                                         *)
(*  - the country drivers (src/countries/*.py): the loop that, for every   *)
(*    (territory, grid, year, satellite, version) key, checks the output   *)
(*    collection, builds the mosaic and starts an export task;             *)
(*  - the raster modules (src/modules/*.py): cloud and shadow masks,       *)
(*    spectral mixture fractions and fraction indices, the percentile      *)
(*    mosaic.  Rasters are modelled pixel by pixel on a small row of       *)
(*    pixels; a masked (no-data) pixel is the value NoData.                *)
(***************************************************************************)
EXTENDS Integers, Sequences, FiniteSets, TLC

(***************************************************************************)
(* Bounds of the model.                                                    *)
(***************************************************************************)
\* number of loop iterations (keys) of one driver run
NKeys == 3
\* number of times the driver script is run
MaxRuns == 2
\* length of the backend task queue at which task.start() is refused
\* (3000 in the backend's message, scaled down)
QueueLimit == 2

Keys == 1..NKeys

(***************************************************************************)
(* The three shapes of driver script.                                      *)
(*   "landsat"   : collection 9, Argentina, India, Indonesia, Mexico,      *)
(*                 Paraguay, DRC (tiles guard, handler compares e to msg)  *)
(*   "peru"      : rows of a CSV table parsed before the try block,        *)
(*                 handler only prints                                     *)
(*   "sentinel2" : no tiles guard, handler only prints                     *)
(***************************************************************************)
Drivers == {"landsat", "peru", "sentinel2"}

VARIABLES
    driver,      \* which driver script is running
    run,         \* number of the current run of the script
    idx,         \* loop position: the key of the next iteration
    pc,          \* "running", "done" (loop finished), "raised" (uncaught exception)
    collection,  \* keys whose composite exists in the output collection
    queue,       \* export tasks submitted and not yet finished (sequence of keys)
    started,     \* per key, number of export tasks started, all runs
    computed,    \* per key, number of times the mosaic was built, this run
    attempts,    \* per key, number of task.start() calls in the current run
    log,         \* per key, what the current run's iteration did
    fn,          \* raster side: name of the function applied ("none" before)
    args,        \* raster side: its arguments
    ret,         \* raster side: its result
    eval         \* raster side: progress of a collection-wide evaluation

vars == <<driver, run, idx, pc, collection, queue, started, computed,
          attempts, log, fn, args, ret, eval>>

driverVars == <<driver, run, idx, pc, collection, queue, started, computed,
                attempts, log>>

rasterVars == <<fn, args, ret, eval>>

(***************************************************************************)
(* Python values that the exception handler compares.                      *)
(***************************************************************************)
\* the text of the backend's queue-limit error
msg == "Too many tasks already in the queue (3000). Please wait for some of them to complete."

PyStr(text) == [type |-> "str", val |-> text]

PyException(text) == [type |-> "Exception", val |-> text]

\* Python's ==  between two objects: an exception instance defines no
\* __eq__, so it is equal to nothing but itself, never to a str
PyEq(a, b) == a.type = b.type /\ a.val = b.val

\* existence check that never finds the key (the "if True:" variant)
NotInCollectionAlways(outputName, alreadyInCollection) == TRUE

\* outputName not in alreadyInCollection
NotInCollection(outputName, alreadyInCollection) ==
    outputName \notin alreadyInCollection

\* task.start() wrapped in a retry: a refused task is submitted a second time
TaskStartWithRetry(q, outputName) ==
    IF Len(q) >= QueueLimit
    THEN [exc |-> msg, queue |-> q, calls |-> 2]
    ELSE [exc |-> "", queue |-> Append(q, outputName), calls |-> 1]

\* task.start(), called once: the backend refuses the task when its queue
\* is full, and the refusal is raised as an exception
TaskStart(q, outputName) ==
    IF Len(q) >= QueueLimit
    THEN [exc |-> msg, queue |-> q, calls |-> 1]
    ELSE [exc |-> "", queue |-> Append(q, outputName), calls |-> 1]

(***************************************************************************)
(* The places of the loop body where an exception can be raised.           *)
(*   "row"     : parsing the CSV row, before the try (Peru only)           *)
(*   "check"   : the getInfo() of the existence check                      *)
(*   "grid"    : the grid geometry / getCollection / getTiles getInfo()    *)
(*   "compute" : building the mosaic (bad argument, missing band)          *)
(*   "start"   : Export.image.toAsset / task.start(), other than quota     *)
(***************************************************************************)
Faults == {"none", "row", "check", "grid", "compute", "start"}

RasterIdle == fn = "none" /\ args = <<>> /\ ret = <<>> /\ eval = <<>>

Init ==
    /\ driver \in Drivers
    /\ run = 1
    /\ idx = 1
    /\ pc = "running"
    /\ collection = {}
    /\ queue = <<>>
    /\ started = [k \in Keys |-> 0]
    /\ computed = [k \in Keys |-> 0]
    /\ attempts = [k \in Keys |-> 0]
    /\ log = [k \in Keys |-> "none"]
    /\ RasterIdle

\* position after the iteration of key k
Advance(k) ==
    /\ idx' = k + 1
    /\ pc' = IF k = NKeys THEN "done" ELSE "running"

\* except Exception as e: print(e) [; if e == msg: raise Exception(e)]
Handler(k, text, what) ==
    /\ log' = [log EXCEPT ![k] = what]
    /\ IF driver = "landsat" /\ PyEq(PyException(text), PyStr(msg))
       THEN idx' = idx /\ pc' = "raised"
       ELSE Advance(k)

(***************************************************************************)
(* One iteration of the driver's loop, whole: the existence check, the     *)
(* tiles guard, the construction of the mosaic, the export, the handler.   *)
(***************************************************************************)
LoopBody(fault, ntiles) ==
    LET k == idx
        alreadyInCollection == collection
        outputName == k
        res == TaskStart(queue, outputName)
    IN
    /\ pc = "running"
    /\ fault = "row" => driver = "peru"
    /\ UNCHANGED <<driver, run, collection, rasterVars>>
    /\ IF fault = "row"
       THEN \* strptime / str.lower on the row, outside the try block
            /\ pc' = "raised"
            /\ log' = [log EXCEPT ![k] = "uncaught"]
            /\ UNCHANGED <<idx, queue, started, computed, attempts>>
       ELSE IF fault = "check"
       THEN /\ Handler(k, "check failed", "error")
            /\ UNCHANGED <<queue, started, computed, attempts>>
       ELSE IF ~NotInCollection(outputName, alreadyInCollection)
       THEN /\ log' = [log EXCEPT ![k] = "skip"]
            /\ Advance(k)
            /\ UNCHANGED <<queue, started, computed, attempts>>
       ELSE IF fault = "grid"
       THEN /\ Handler(k, "grid failed", "error")
            /\ UNCHANGED <<queue, started, computed, attempts>>
       ELSE IF driver = "landsat" /\ ntiles = 0
       THEN /\ log' = [log EXCEPT ![k] = "notiles"]
            /\ Advance(k)
            /\ UNCHANGED <<queue, started, computed, attempts>>
       ELSE IF fault = "compute"
       THEN /\ computed' = [computed EXCEPT ![k] = @ + 1]
            /\ Handler(k, "compute failed", "error")
            /\ UNCHANGED <<queue, started, attempts>>
       ELSE IF fault = "start"
       THEN /\ computed' = [computed EXCEPT ![k] = @ + 1]
            /\ attempts' = [attempts EXCEPT ![k] = @ + 1]
            /\ Handler(k, "start failed", "error")
            /\ UNCHANGED <<queue, started>>
       ELSE /\ computed' = [computed EXCEPT ![k] = @ + 1]
            /\ attempts' = [attempts EXCEPT ![k] = @ + res.calls]
            /\ queue' = res.queue
            /\ IF res.exc = ""
               THEN /\ started' = [started EXCEPT ![k] = @ + 1]
                    /\ log' = [log EXCEPT ![k] = "export"]
                    /\ Advance(k)
               ELSE /\ UNCHANGED started
                    /\ Handler(k, res.exc, "quota")

Iterate == \E fault \in Faults, ntiles \in 0..1 : LoopBody(fault, ntiles)

(***************************************************************************)
(* The backend: a queued export task finishes.  It writes the asset        *)
(* unless an asset of that name already exists.                            *)
(***************************************************************************)
TaskFinish ==
    /\ queue # <<>>
    /\ collection' = collection \cup {Head(queue)}
    /\ queue' = Tail(queue)
    /\ UNCHANGED <<driver, run, idx, pc, started, computed, attempts, log, rasterVars>>

(***************************************************************************)
(* The operator runs the script again.                                     *)
(***************************************************************************)
Rerun ==
    /\ pc \in {"done", "raised"}
    /\ run < MaxRuns
    /\ run' = run + 1
    /\ idx' = 1
    /\ pc' = "running"
    /\ attempts' = [k \in Keys |-> 0]
    /\ log' = [k \in Keys |-> "none"]
    /\ computed' = [k \in Keys |-> 0]
    /\ UNCHANGED <<driver, collection, queue, started, rasterVars>>

Next == Iterate \/ TaskFinish \/ Rerun

Spec == Init /\ [][Next]_vars

(***************************************************************************)
(* Claims about the drivers.                                               *)
(***************************************************************************)

\* C1: if the composite of a key is already in the output collection when
\* the driver reaches that key's iteration, the iteration builds no mosaic
\* and starts (and attempts) no export task for it.
C1_SkipsExisting ==
    [][(pc = "running" /\ idx \in collection /\ log' # log)
        => /\ queue' = queue
           /\ started' = started
           /\ computed' = computed
           /\ attempts' = attempts]_vars

\* an iteration found its key in the collection and skipped it
C1_Witness ==
    \E k \in Keys : log[k] = "skip" /\ k \in collection /\ started[k] = 1

\* C2: across any sequence of runs, also a re-run started while tasks of an
\* earlier run are still pending, no key ever has two export tasks started.
C2_OneTaskPerKey == \A k \in Keys : started[k] <= 1

\* C3: whenever the processing of one tile raises an error, the driver
\* still goes on to the remaining tiles: it has moved past every key whose
\* iteration failed.
C3_TileFailuresIsolated ==
    \A k \in Keys : log[k] \in {"error", "uncaught"} => idx > k

\* C4 (as claimed): a quota-exceeded response is never left without a retry
\* of the same submission.
C4_QuotaRetried ==
    \A k \in Keys : log[k] = "quota" => attempts[k] >= 2

\* C4 (amended): on a quota-exceeded response the submission is not
\* retried: task.start() was called exactly once for the key in that
\* iteration, no task is queued or started for it, and the exception goes
\* to the iteration's handler.
C4_QuotaNotRetried ==
    [][\A k \in Keys :
         (log[k] # "quota" /\ log'[k] = "quota")
          => /\ attempts'[k] = attempts[k] + 1
             /\ attempts'[k] = 1
             /\ queue' = queue
             /\ started' = started]_vars

\* an iteration was refused by the full queue
C4_Witness ==
    \E k \in Keys : log[k] = "quota" /\ Len(queue) >= QueueLimit

(***************************************************************************)
(* Raster values.  A pixel of a band is an integer, or NoData where the    *)
(* pixel is masked; NoData is a marker below the range of every band.      *)
(***************************************************************************)
NoData == -1000000

Abs(x) == IF x < 0 THEN -x ELSE x

Max2(a, b) == IF a >= b THEN a ELSE b

\* n / d for d > 0, truncated towards zero (conversion of a float to an
\* integer pixel type)
TruncDiv(n, d) == IF n >= 0 THEN n \div d ELSE -((-n) \div d)

\* .byte(): cast to unsigned 8 bit, values outside 0..255 saturate
Byte(x) == IF x < 0 THEN 0 ELSE IF x > 255 THEN 255 ELSE x

(***************************************************************************)
(* Spectral mixture analysis (src/modules/SmaAndNdfi.py).                  *)
(***************************************************************************)
Bands6 == 1..6   \* blue, green, red, nir, swir1, swir2

\* ENDMEMBERS['landsat-8'] (the same numbers for every sensor): rows gv,
\* npv, soil, cloud
ENDMEMBERS ==
    << <<119, 475, 169, 6250, 2399, 675>>,
       <<1514, 1597, 1421, 3053, 7707, 1975>>,
       <<1799, 2479, 3158, 5437, 7707, 6646>>,
       <<4031, 8714, 7900, 8989, 7002, 6607>> >>

\* largest reflectance of an input band, on the x10000 scale
MaxReflectance == 10000

\* endmember proportions, in percent, of the pixels given to the unmixing
CoefGrid == {-10, 0, 40, 100, 120}

Coefs == [1..4 -> CoefGrid]

\* the pixel that mixes the endmembers in proportions c (percent); band
\* values are in hundredths of a reflectance unit
Mix(c) ==
    [b \in Bands6 |->
        c[1] * ENDMEMBERS[1][b] + c[2] * ENDMEMBERS[2][b]
      + c[3] * ENDMEMBERS[3][b] + c[4] * ENDMEMBERS[4][b]]

\* pixels whose six bands are reflectances in 0..MaxReflectance
IsReflectance(pixel) ==
    \A b \in Bands6 : pixel[b] >= 0 /\ pixel[b] <= 100 * MaxReflectance

SmaPixels == {Mix(c) : c \in {d \in Coefs : IsReflectance(Mix(d))}}

\* image.unmix(endmembers): unconstrained least squares; for a pixel that
\* is a mixture of the (linearly independent) endmembers the solution is
\* the vector of its proportions, returned here in percent
Unmix(pixel) == CHOOSE c \in Coefs : Mix(c) = pixel

\* .max(0).multiply(100).byte() of one unmixed proportion (x in percent)
FractionByte(x) == Byte(Max2(x, 0))

\* getFractions: bands gv, npv, soil, cloud and shade
getFractions(pixel) ==
    LET u == Unmix(pixel)
        gv == FractionByte(u[1])
        npv == FractionByte(u[2])
        soil == FractionByte(u[3])
        cloud == FractionByte(u[4])
        summed == gv + npv + soil
    IN [gv |-> gv, npv |-> npv, soil |-> soil, cloud |-> cloud,
        shade |-> Byte(Abs(summed - 100))]

\* byte(b(x) * 200 + 100) of the normalized difference num/den
IndexByteWide(num, den) == Byte(TruncDiv(200 * num + 100 * den, den))

\* byte(b(x) * 100 + 100) of the normalized difference num/den (den > 0)
IndexByte(num, den) == Byte(TruncDiv(100 * num + 100 * den, den))

\* ee.Image.cat(a, b).normalizedDifference() followed by the rescaling to
\* byte, for a = an/ad and b = bn/bd (ad, bd > 0, a, b >= 0).  Where
\* a + b = 0 the quotient is 0/0: zeroSum says whether the backend masks
\* the pixel or yields 0.
ScaledDifference(an, ad, bn, bd, zeroSum) ==
    LET num == an * bd - bn * ad
        den == an * bd + bn * ad
    IN IF den = 0
       THEN (IF zeroSum = "masked" THEN NoData ELSE IndexByte(0, 1))
       ELSE IndexByte(num, den)

\* a.divide(b): 0 where b is 0; the quotient as a pair numerator, denominator
Divide(a, b) == IF b = 0 THEN <<0, 1>> ELSE <<a, b>>

\* getNDFI: band ndfi (and gvs)
getNDFI(f, zeroSum) ==
    LET summed == f.gv + f.npv + f.soil
        q == Divide(f.gv, summed)
        gvs == Byte(TruncDiv(100 * q[1], q[2]))
        npvSoil == f.npv + f.soil
    IN [gvs |-> gvs, ndfi |-> ScaledDifference(gvs, 1, npvSoil, 1, zeroSum)]

\* getSEFI: band sefi
getSEFI(f, zeroSum) ==
    LET summed == f.gv + f.npv + f.soil
        q == Divide(f.gv + f.npv, summed)
    IN ScaledDifference(100 * q[1], q[2], f.soil, 1, zeroSum)

\* getWEFI: band wefi
getWEFI(f, zeroSum) ==
    LET summed == f.gv + f.npv + f.soil
        shd == Byte(Abs(summed - 100))
    IN ScaledDifference(f.gv + f.npv, 1, f.soil + shd, 1, zeroSum)

\* getFNS: band fns
getFNS(f, zeroSum) ==
    LET summed == f.gv + f.npv + f.soil
        shd == Byte(Abs(summed - 100))
    IN ScaledDifference(f.gv + shd, 1, f.soil, 1, zeroSum)

\* the drivers' fraction step: getFractions, then getNDFI, getSEFI,
\* getWEFI, getFNS mapped over the collection (one pixel of one scene)
SmaBands(pixel, zeroSum) ==
    LET f == getFractions(pixel)
        n == getNDFI(f, zeroSum)
    IN [gv |-> f.gv, npv |-> f.npv, soil |-> f.soil, cloud |-> f.cloud,
        shade |-> f.shade, gvs |-> n.gvs, ndfi |-> n.ndfi,
        sefi |-> getSEFI(f, zeroSum), wefi |-> getWEFI(f, zeroSum),
        fns |-> getFNS(f, zeroSum)]

\* the driver side is not running while a raster function is applied
DriverIdle ==
    /\ driver = "landsat"
    /\ run = 1
    /\ idx = 1
    /\ pc = "running"
    /\ collection = {}
    /\ queue = <<>>
    /\ started = [k \in Keys |-> 0]
    /\ computed = [k \in Keys |-> 0]
    /\ attempts = [k \in Keys |-> 0]
    /\ log = [k \in Keys |-> "none"]

InitRaster == DriverIdle /\ RasterIdle

ApplySma ==
    /\ fn = "none"
    /\ \E pixel \in SmaPixels, zeroSum \in {"masked", "zero"} :
          /\ fn' = "sma"
          /\ args' = [pixel |-> pixel, zeroSum |-> zeroSum]
          /\ ret' = SmaBands(pixel, zeroSum)
    /\ UNCHANGED <<driverVars, eval>>

NextSma == ApplySma

SpecSma == InitRaster /\ [][NextSma]_vars

(***************************************************************************)
(* Claims about the fractions and the fraction indices.                    *)
(***************************************************************************)

\* C7: the bands gv, npv and soil returned by getFractions are integers in
\* 0..100 and shade is |100 - (gv+npv+soil)| clipped to 0..100.
C7_FractionsIn0To100 ==
    fn = "sma" =>
        /\ ret.gv \in 0..100
        /\ ret.npv \in 0..100
        /\ ret.soil \in 0..100
        /\ ret.shade = IF Abs(100 - (ret.gv + ret.npv + ret.soil)) > 100 THEN 100
                     ELSE Abs(100 - (ret.gv + ret.npv + ret.soil))

\* C8: wherever they are defined, ndfi, sefi, wefi and fns computed from a
\* getFractions output are integers in 0..200.
C8_IndicesIn0To200 ==
    fn = "sma" =>
        \A v \in {ret.ndfi, ret.sefi, ret.wefi, ret.fns} :
            v = NoData \/ v \in 0..200

\* the indices of a pixel with a fraction above 100 reach both ends of the
\* range
C8_Witness ==
    /\ fn = "sma"
    /\ ret.soil > 100
    /\ ret.sefi = 0
    /\ ret.ndfi # NoData
    /\ ret.wefi # NoData
    /\ ret.fns # NoData

C8_WitnessTop == fn = "sma" /\ ret.ndfi = 200 /\ ret.sefi = 200

(***************************************************************************)
(* Cloud and shadow masks (src/modules/CloudAndShadowMaskC2.py).           *)
(* A raster is one row of NPix pixels running west to east; a collection   *)
(* is a sequence of NScenes scenes.                                        *)
(***************************************************************************)
\* pixels in the row
NPix == 2
\* scenes in a collection
NScenes == 3

Pixels == 1..NPix

Scenes == 1..NScenes

\* pixels of the kernel of radius r (in pixels) around p that are in the row
Kernel(p, r) == {n \in Pixels : Abs(n - p) <= r}

SetMin(S) == CHOOSE x \in S : \A y \in S : x <= y

SetMax(S) == CHOOSE x \in S : \A y \in S : x >= y

\* image.focal_max(radius)
focal_max(band, radius) ==
    [p \in Pixels |-> SetMax({band[n] : n \in Kernel(p, radius)})]

\* the band without the minimum filter
focal_minNone(band, radius) == band

\* image.focal_min(radius)
focal_min(band, radius) ==
    [p \in Pixels |-> SetMin({band[n] : n \in Kernel(p, radius)})]

RECURSIVE SumOver(_, _)
\* sum of f[i] for i in S
SumOver(f, S) ==
    IF S = {} THEN 0
    ELSE LET i == CHOOSE j \in S : TRUE IN f[i] + SumOver(f, S \ {i})

\* zScore.lt(zScoreThresh) at one pixel of one band, for the value v of the
\* scene and the series of that pixel over the collection:
\*   zScore = (v - mean) / stdDev, with mean = S/N and stdDev =
\*   sqrt(N*Q - S*S)/N (S the sum, Q the sum of squares), that is
\*   (N*v - S) / sqrt(N*Q - S*S); divide() gives 0 where stdDev is 0
ZScoreLt(v, series, zScoreThresh) ==
    LET N == NScenes
        S == SumOver(series, Scenes)
        Q == SumOver([s \in Scenes |-> series[s] * series[s]], Scenes)
        A == N * v - S
        D == N * Q - S * S
    IN IF D = 0 THEN 0 < zScoreThresh
       ELSE IF zScoreThresh < 0
            THEN A < 0 /\ A * A > zScoreThresh * zScoreThresh * D
            ELSE A < 0 \/ A * A < zScoreThresh * zScoreThresh * D

Bit(b) == IF b THEN 1 ELSE 0

\* either band below the threshold is enough (reduce(sum).gte(1))
DarkOutlierAnyBand(coll, s, p, zScoreThresh, shadowSumThresh) ==
    LET nirLt == ZScoreLt(coll[s][p].nir, [t \in Scenes |-> coll[t][p].nir], zScoreThresh)
        swirLt == ZScoreLt(coll[s][p].swir1, [t \in Scenes |-> coll[t][p].swir1], zScoreThresh)
        irSum == coll[s][p].nir + coll[s][p].swir1
    IN Bit(Bit(nirLt) + Bit(swirLt) >= 1 /\ irSum < shadowSumThresh)

\* _maskDarkOutliers before the focal_min:
\* zScore.lt(zScoreThresh).reduce(sum).eq(2).And(irSum.lt(shadowSumThresh))
DarkOutlier(coll, s, p, zScoreThresh, shadowSumThresh) ==
    LET nirLt == ZScoreLt(coll[s][p].nir, [t \in Scenes |-> coll[t][p].nir], zScoreThresh)
        swirLt == ZScoreLt(coll[s][p].swir1, [t \in Scenes |-> coll[t][p].swir1], zScoreThresh)
        irSum == coll[s][p].nir + coll[s][p].swir1
    IN Bit(Bit(nirLt) + Bit(swirLt) = 2 /\ irSum < shadowSumThresh)

\* tdom: the band tdomMask of every scene of the collection
tdom(coll, zScoreThresh, shadowSumThresh, dilatePixels) ==
    [s \in Scenes |->
        focal_min([p \in Pixels |->
                      DarkOutlier(coll, s, p, zScoreThresh, shadowSumThresh)],
                  dilatePixels)]

\* nir and swir1 of the pixels given to tdom: bright land, dark in both
\* bands, dark in swir1 only
IrSpectra ==
    {[nir |-> 3000, swir1 |-> 3000],
     [nir |-> 500, swir1 |-> 500],
     [nir |-> 3000, swir1 |-> 500]}

\* a scene at its pixels: clear (the bright spectrum everywhere) or with one
\* patch of pixels that has another spectrum
ScenePattern(ir, patch) ==
    [p \in Pixels |-> IF p \in patch THEN ir ELSE [nir |-> 3000, swir1 |-> 3000]]

TdomScenes ==
    {ScenePattern(ir, patch) : ir \in IrSpectra, patch \in SUBSET Pixels}

\* collections whose first scene is clear
TdomCollections ==
    {coll \in [Scenes -> TdomScenes] : coll[1] = ScenePattern(coll[1][1], {})}

\* zScoreThresh of the drivers (-1) and 0 (anything darker than the mean);
\* shadowSumThresh of the drivers, a lower and a higher one; dilatePixels 0
\* (no filter) and 1
ZScoreThreshs == {-1, 0}

ShadowSumThreshs == {800, 4000, 8000}

DilateRadii == {0, 1}

ApplyTdom ==
    /\ fn = "none"
    /\ \E coll \in TdomCollections, z \in ZScoreThreshs,
          t \in ShadowSumThreshs, d \in DilateRadii :
          /\ fn' = "tdom"
          /\ args' = [collection |-> coll, zScoreThresh |-> z,
                      shadowSumThresh |-> t, dilatePixels |-> d]
          /\ ret' = tdom(coll, z, t, d)
    /\ UNCHANGED <<driverVars, eval>>

(***************************************************************************)
(* cloudProject.                                                           *)
(***************************************************************************)
\* cosine and sine of a multiple of 90 degrees
CosDeg(a) == LET r == a % 360 IN IF r = 0 THEN 1 ELSE IF r = 180 THEN -1 ELSE 0

SinDeg(a) == LET r == a % 360 IN IF r = 90 THEN 1 ELSE IF r = 270 THEN -1 ELSE 0

\* n / d rounded to the nearest integer (d > 0)
RoundDiv(n, d) == (2 * n + d) \div (2 * d)

\* nominalScale of the Landsat bands, metres
NominalScale == 30

\* the offset without the quarter turn of the azimuth
ShadowOffsetNoTurn(azimuth, cloudHeight) ==
    << RoundDiv(CosDeg(azimuth) * cloudHeight, NominalScale),
       RoundDiv(SinDeg(azimuth) * cloudHeight, NominalScale) >>

\* _findShadow: the offset <<x, y>> in pixels for a cloud height, for a sun
\* at elevation 45 degrees (tan(zenith) = 1) and an azimuth that is a
\* multiple of 90 degrees:
\*   azR = azimuth + 90 degrees, shadowCastedDistance = tan(zenR) * height
\*   x = round(cos(azR) * distance / scale), y = round(sin(azR) * distance / scale)
ShadowOffset(azimuth, cloudHeight) ==
    LET shadowCastedDistance == cloudHeight
    IN << RoundDiv(CosDeg(azimuth + 90) * shadowCastedDistance, NominalScale),
          RoundDiv(SinDeg(azimuth + 90) * shadowCastedDistance, NominalScale) >>

\* cloud.changeProj(proj, proj.translate(x, y)) on the row: the value of
\* pixel p moves to p + x; a pixel that receives nothing, or anything moved
\* off the row's line (y # 0), is masked
Translate(band, off) ==
    [p \in Pixels |->
        IF off[2] = 0 /\ (p - off[1]) \in Pixels THEN band[p - off[1]] ELSE NoData]

\* ee.ImageCollection.fromImages(shadows).max().unmask() at every pixel
MaxUnmask(images) ==
    [p \in Pixels |->
        LET vals == {images[i][p] : i \in DOMAIN images} \ {NoData}
        IN IF vals = {} THEN 0 ELSE SetMax(vals)]

\* a.And(b), a.Not() on pixel values
And(a, b) == Bit(a # 0 /\ b # 0)

Not(a) == Bit(a = 0)

\* refinement that forgets to exclude the cloud itself
RefineShadowKeepCloud(shadow, darkPixels, tdomMask, cloud) ==
    And(And(shadow, darkPixels), Not(tdomMask))

\* shadow.And(darkPixels).And(tdomMask.Not().And(cloud.Not())) at a pixel
RefineShadow(shadow, darkPixels, tdomMask, cloud) ==
    And(And(shadow, darkPixels), And(Not(tdomMask), Not(cloud)))

\* cloudProject: the band cloudShadowTdomMask.  image[p] has the bands
\* cloud (the band named by cloudBand), tdomMask, nir, swir1, swir2.
cloudProject(image, azimuth, shadowSumThresh, cloudHeights, dilatePixels) ==
    LET cloud == [p \in Pixels |-> image[p].cloud]
        darkPixels == [p \in Pixels |->
            Bit(image[p].nir + image[p].swir1 + image[p].swir2 < shadowSumThresh)]
        shadows == [i \in DOMAIN cloudHeights |->
            Translate(cloud, ShadowOffset(azimuth, cloudHeights[i]))]
        shadow == focal_max(MaxUnmask(shadows), dilatePixels)
    IN [p \in Pixels |->
          RefineShadow(shadow[p], darkPixels[p], image[p].tdomMask, cloud[p])]

\* infrared bands of the pixels given to cloudProject: dark and bright
IrSpectra3 ==
    {[nir |-> 500, swir1 |-> 500, swir2 |-> 500],
     [nir |-> 3000, swir1 |-> 3000, swir2 |-> 2000]}

ProjectPixels ==
    {[cloud |-> c, tdomMask |-> t, nir |-> ir.nir, swir1 |-> ir.swir1, swir2 |-> ir.swir2] :
        c \in {0, 1}, t \in {0, 1}, ir \in IrSpectra3}

ProjectImages == [Pixels -> ProjectPixels]

\* sun in the east, south and west
Azimuths == {90, 180, 270}

\* cloud heights one and two pixel sizes up
CloudHeightLists == {<<30>>, <<30, 60>>}

ApplyCloudProject ==
    /\ fn = "none"
    /\ \E image \in ProjectImages, az \in Azimuths, t \in ShadowSumThreshs,
          h \in CloudHeightLists, d \in DilateRadii :
          /\ fn' = "cloudProject"
          /\ args' = [image |-> image, sun_azimuth_angle |-> az,
                      shadowSumThresh |-> t, cloudHeights |-> h,
                      dilatePixels |-> d]
          /\ ret' = cloudProject(image, az, t, h, d)
    /\ UNCHANGED <<driverVars, eval>>

(***************************************************************************)
(* applyCloudAndShadowMask of the Landsat drivers, at one pixel of one     *)
(* scene: getMasks with every method enabled, then image.mask(...).        *)
(*   "collection9" : mapbiomas_mosaics_collection_9_landsat_v1.py          *)
(*   "indonesia"   : mapbiomas_Indonesia_mosaics_collection_1_landsat_v1   *)
(*   "argentina"   : the Argentina, India, Mexico, Paraguay, DRC scripts   *)
(*   "peru"        : mapbiomas_Peru_mosaics_collection_1_landsat_v1.py     *)
(***************************************************************************)
MaskScripts == {"collection9", "indonesia", "argentina", "peru"}

MaskBands ==
    {"cloudFlagMask", "cloudScoreMask", "cloudShadowFlagMask", "tdomMask",
     "cloudShadowTdomMask"}

\* cloudBand= of the script's getMasks call
CloudBandOf(script) ==
    IF script = "argentina" THEN "cloudShadowFlagMask" ELSE "cloudScoreMask"

\* the selection with the commented-out bands put back
SelectedMasksAll(script) ==
    {"cloudFlagMask", "cloudScoreMask", "cloudShadowFlagMask", "cloudShadowTdomMask"}

\* the bands named in image.select([...]) of applyCloudAndShadowMask
SelectedMasks(script) ==
    IF script = "collection9"
    THEN {"cloudFlagMask", "cloudScoreMask", "cloudShadowFlagMask"}
    ELSE IF script = "peru"
    THEN {"cloudFlagMask", "cloudScoreMask", "cloudShadowFlagMask", "cloudShadowTdomMask"}
    ELSE {"cloudFlagMask", "cloudShadowFlagMask"}

\* the mask bands getMasks adds at a pixel (all five methods enabled), from
\* the outputs of the four detectors and, for the projection, whether the
\* dilated projected shadow covers the pixel and whether the pixel is dark
getMasksPixel(script, px) ==
    LET b == [cloudFlagMask |-> px.cloudFlagMask,
              cloudScoreMask |-> px.cloudScoreMask,
              cloudShadowFlagMask |-> px.cloudShadowFlagMask,
              tdomMask |-> px.tdomMask]
    IN [n \in MaskBands |->
          IF n = "cloudShadowTdomMask"
          THEN RefineShadow(px.shadow, px.darkPixels, px.tdomMask, b[CloudBandOf(script)])
          ELSE b[n]]

\* image.select(bands).reduce(ee.Reducer.anyNonZero()) at a pixel
AnyNonZero(image, bands) == Bit(\E n \in bands : image[n] # 0)

\* image.mask(m) at a pixel: the pixel is valid where m is valid and not 0
\* (TRUE = valid)
MaskPixel(m) == m # NoData /\ m # 0

\* applyCloudAndShadowMask at a pixel that is valid in the input scene:
\* is the pixel valid in the output
applyCloudAndShadowMask(script, px) ==
    LET image == getMasksPixel(script, px)
    IN MaskPixel(Bit(AnyNonZero(image, SelectedMasks(script)) = 0))

MaskInputs ==
    [cloudFlagMask : {0, 1}, cloudScoreMask : {0, 1},
     cloudShadowFlagMask : {0, 1}, tdomMask : {0, 1},
     shadow : {0, 1}, darkPixels : {0, 1}]

ApplyCloudAndShadowMask ==
    /\ fn = "none"
    /\ \E script \in MaskScripts, px \in MaskInputs :
          /\ fn' = "applyCloudAndShadowMask"
          /\ args' = [script |-> script, pixel |-> px]
          /\ ret' = [masks |-> getMasksPixel(script, px),
                     valid |-> applyCloudAndShadowMask(script, px)]
    /\ UNCHANGED <<driverVars, eval>>

(***************************************************************************)
(* cloudScoreMask at one pixel.  Band values are reflectance x 10000; a    *)
(* test value is kept in percent, as the exact quotient num / den.         *)
(***************************************************************************)
\* floor of n / d for d > 0
FloorDiv(n, d) == IF n >= 0 THEN n \div d ELSE -((-n + d - 1) \div d)

\* rescale(image, min, max) in percent: (value - min) / (max - min), no
\* clamping; [num, den] with den > 0
rescale(value, min, max) ==
    IF max > min
    THEN [num |-> 100 * (value - min), den |-> max - min]
    ELSE [num |-> 100 * (min - value), den |-> min - max]

\* the four rescaled tests of cloudScoreMask; ndsi is (green - swir1) /
\* (green + swir1), rescaled from 0.8 down to 0.6, all on the common
\* denominator green + swir1
CloudTests(px, zeroSum) ==
    LET sum == px.green + px.swir1
        ndsiTest == IF sum = 0
                    THEN rescale(0, 8, 6)
                    ELSE rescale(10 * (px.green - px.swir1), 8 * sum, 6 * sum)
    IN << rescale(px.blue, 1000, 3000),
          rescale(px.red + px.green + px.blue, 2000, 8000),
          rescale(px.nir + px.swir1 + px.swir2, 3000, 8000),
          ndsiTest >>

\* score = ee.Image(1.0).min(test1)...min(test4).multiply(100).byte(), with
\* the constant 1.0 left out
CloudScoreNoCap(px, zeroSum) ==
    LET t == CloudTests(px, zeroSum)
    IN Byte(SetMin({FloorDiv(t[i].num, t[i].den) : i \in 1..4}))

\* score = ee.Image(1.0).min(test1)...min(test4).multiply(100).byte()
CloudScore(px, zeroSum) ==
    LET t == CloudTests(px, zeroSum)
    IN Byte(SetMin({100} \cup {FloorDiv(t[i].num, t[i].den) : i \in 1..4}))

\* cloudScoreMask: the score and the band score.gte(cloudThresh); masked
\* where normalizedDifference is masked
cloudScoreMask(px, cloudThresh, zeroSum) ==
    IF px.green + px.swir1 = 0 /\ zeroSum = "masked"
    THEN [score |-> NoData, cloudScoreMask |-> NoData]
    ELSE [score |-> CloudScore(px, zeroSum),
          cloudScoreMask |-> Bit(CloudScore(px, zeroSum) >= cloudThresh)]

ScorePixels ==
    [blue : {500, 1200, 2000, 3500}, green : {0, 1000, 3000},
     red : {1000, 3000}, nir : {1000, 3000}, swir1 : {0, 500, 3000},
     swir2 : {1000, 3000}]

\* cloudThresh of the drivers (10) and values around the ends of the scale
CloudThreshs == {0, 10, 50, 100, 101}

ApplyCloudScoreMask ==
    /\ fn = "none"
    /\ \E px \in ScorePixels, c \in CloudThreshs, zeroSum \in {"masked", "zero"} :
          /\ fn' = "cloudScoreMask"
          /\ args' = [pixel |-> px, cloudThresh |-> c, zeroSum |-> zeroSum]
          /\ ret' = cloudScoreMask(px, c, zeroSum)
    /\ UNCHANGED <<driverVars, eval>>

(***************************************************************************)
(* getMasks: which mask bands the returned images carry, by toggle.        *)
(***************************************************************************)
\* the nested ee.Algorithms.If of getMasks and the final "if cloudShadowTdom"
getMasksBands(cloudFlag, cloudScore, cloudShadowFlag, cloudShadowTdom) ==
    LET cloud == IF cloudFlag
                 THEN IF cloudScore THEN {"cloudFlagMask", "cloudScoreMask"}
                      ELSE {"cloudFlagMask"}
                 ELSE {"cloudScoreMask"}
        shadow == IF cloudShadowFlag
                  THEN IF cloudShadowTdom THEN {"cloudShadowFlagMask", "tdomMask"}
                       ELSE {"cloudShadowFlagMask"}
                  ELSE {"tdomMask"}
        projected == IF cloudShadowTdom THEN {"cloudShadowTdomMask"} ELSE {}
    IN cloud \cup shadow \cup projected

\* getMasks: the bands added, and whether evaluating the collection fails
\* because cloudProject selects a band the image lacks (cloudBand, tdomMask)
getMasks(cloudFlag, cloudScore, cloudShadowFlag, cloudShadowTdom, cloudBand) ==
    LET before == getMasksBands(cloudFlag, cloudScore, cloudShadowFlag,
                                cloudShadowTdom) \ {"cloudShadowTdomMask"}
    IN [bands |-> getMasksBands(cloudFlag, cloudScore, cloudShadowFlag,
                                cloudShadowTdom),
        error |-> cloudShadowTdom /\ ~({cloudBand, "tdomMask"} \subseteq before)]

\* cloudBand arguments: the default None and the three cloud-side bands
CloudBands == {"None", "cloudFlagMask", "cloudScoreMask", "cloudShadowFlagMask"}

ApplyGetMasks ==
    /\ fn = "none"
    /\ \E cloudFlag, cloudScore, cloudShadowFlag, cloudShadowTdom \in BOOLEAN,
          cloudBand \in CloudBands :
          /\ fn' = "getMasks"
          /\ args' = [cloudFlag |-> cloudFlag, cloudScore |-> cloudScore,
                      cloudShadowFlag |-> cloudShadowFlag,
                      cloudShadowTdom |-> cloudShadowTdom,
                      cloudBand |-> cloudBand]
          /\ ret' = getMasks(cloudFlag, cloudScore, cloudShadowFlag,
                             cloudShadowTdom, cloudBand)
    /\ UNCHANGED <<driverVars, eval>>

(***************************************************************************)
(* cloudShadowFlagMask at one pixel of a scene.  The scene carries the     *)
(* properties satellite_name and reflectance, its first band and, when     *)
(* hasQa, a pixel_qa band.                                                 *)
(***************************************************************************)
SatelliteNames == {"Sentinel-2A", "Sentinel-2B", "LANDSAT_8", "LANDSAT_5"}

Reflectances == {"TOA", "SR"}

\* ee.String(name).slice(0, 10)
Slice0To10(name) ==
    CASE name = "Sentinel-2A" -> "Sentinel-2"
      [] name = "Sentinel-2B" -> "Sentinel-2"
      [] OTHER -> name

\* a.compareTo(b).Not(): 1 when the strings are equal
CompareToNot(a, b) == Bit(a = b)

\* qaBand.bitwiseAnd(2^4).neq(0) of cloudShadowFlagMaskToaLX / SrLX
ShadowBit(qa) == Bit(((qa \div 16) % 2) * 16 # 0)

\* ee.Image(0).mask(m) at a pixel: 0 where the mask image m is valid and not
\* 0, no data elsewhere
ZeroMaskedBy(m) == IF MaskPixel(m) THEN 0 ELSE NoData

\* cloudShadowFlagMask: the value of the added band at the pixel, and whether
\* evaluating the chosen branch fails (pixel_qa selected on a scene without it)
cloudShadowFlagMask(image) ==
    LET isSentinel == CompareToNot(Slice0To10(image.satellite_name), "Sentinel-2")
        isToa == CompareToNot(image.reflectance, "TOA")
    IN IF isSentinel = 1
       THEN [error |-> FALSE, cloudShadowFlagMask |-> ZeroMaskedBy(image.band0)]
       ELSE IF ~image.hasQa
       THEN [error |-> TRUE, cloudShadowFlagMask |-> NoData]
       ELSE IF isToa = 1
       THEN [error |-> FALSE, cloudShadowFlagMask |-> ShadowBit(image.pixel_qa)]
       ELSE [error |-> FALSE, cloudShadowFlagMask |-> ShadowBit(image.pixel_qa)]

\* pixel_qa values: clear, cloud (bit 3), shadow (bit 4), cloud and shadow
QaValues == {0, 8, 16, 24}

\* first-band values at the pixel: masked, zero reflectance, reflectance 0.12
FirstBandValues == {NoData, 0, 1200}

ShadowFlagImages ==
    [satellite_name : SatelliteNames, reflectance : Reflectances,
     band0 : FirstBandValues, hasQa : BOOLEAN, pixel_qa : QaValues]

ApplyCloudShadowFlagMask ==
    /\ fn = "none"
    /\ \E image \in ShadowFlagImages :
          /\ fn' = "cloudShadowFlagMask"
          /\ args' = image
          /\ ret' = cloudShadowFlagMask(image)
    /\ UNCHANGED <<driverVars, eval>>

(***************************************************************************)
(* cloudFlagMask at one pixel of a scene.                                  *)
(***************************************************************************)
\* qaBand.bitwiseAnd(2^k), for bit = 2^k
BitwiseAnd(qa, bit) == ((qa \div bit) % 2) * bit

\* a.neq(b)
Neq(a, b) == Bit(a # b)

\* a.Or(b)
Or(a, b) == Bit(a # 0 \/ b # 0)

\* qaBand.bitwiseAnd(2^3)
cloudFlagMaskToaLX(qa) == BitwiseAnd(qa, 8)

\* bit 10 or bit 11
cloudFlagMaskToaS2(qa) ==
    Or(Neq(BitwiseAnd(qa, 1024), 0), Neq(BitwiseAnd(qa, 2048), 0))

cloudFlagMaskToa(image) ==
    IF CompareToNot(Slice0To10(image.satellite_name), "Sentinel-2") = 1
    THEN cloudFlagMaskToaS2(image.pixel_qa)
    ELSE cloudFlagMaskToaLX(image.pixel_qa)

\* qaBand.bitwiseAnd(2^3).neq(0)
cloudFlagMaskSr(image) == Neq(BitwiseAnd(image.pixel_qa, 8), 0)

\* cloudFlagMask: the value of the added band cloudFlagMask at the pixel
cloudFlagMask(image) ==
    IF CompareToNot(image.reflectance, "TOA") = 1
    THEN cloudFlagMaskToa(image)
    ELSE cloudFlagMaskSr(image)

\* pixel_qa values with the Landsat bits 3 and 4 and the Sentinel-2 bits 10
\* and 11
CloudQaValues == QaValues \cup {1024, 2048, 3072}

CloudFlagImages ==
    [satellite_name : SatelliteNames, reflectance : Reflectances,
     pixel_qa : CloudQaValues]

ApplyCloudFlagMask ==
    /\ fn = "none"
    /\ \E image \in CloudFlagImages :
          /\ fn' = "cloudFlagMask"
          /\ args' = image
          /\ ret' = [cloudFlagMask |-> cloudFlagMask(image)]
    /\ UNCHANGED <<driverVars, eval>>

(***************************************************************************)
(* cloudProject on the plane, before the dilation and the refinement.  A   *)
(* band is the set of the grid positions <<x, y>> where it is 1.           *)
(***************************************************************************)
\* cloud.changeProj(proj, proj.translate(x, y)): every pixel moves by the
\* offset
TranslateGrid(band, off) == {<<c[1] + off[1], c[2] + off[2]>> : c \in band}

\* ee.ImageCollection.fromImages(shadows).max().unmask(): the union of the
\* cloud translated for every cloud height; the offsets are returned too
projectShadow(cloud, azimuth, cloudHeights) ==
    [offsets |-> [i \in DOMAIN cloudHeights |->
                    ShadowOffset(azimuth, cloudHeights[i])],
     shadow |-> UNION {TranslateGrid(cloud, ShadowOffset(azimuth, cloudHeights[i])) :
                         i \in DOMAIN cloudHeights}]

CloudPositions == {<<50, 50>>, <<50, 51>>, <<10, 90>>}

\* sun in the north, east, south and west
GridAzimuths == {0, 90, 180, 270}

GridCloudHeights == {<<1000>>, <<200>>, <<200, 1000>>, <<200, 700, 1200>>}

ApplyProjectShadow ==
    /\ fn = "none"
    /\ \E cloud \in SUBSET CloudPositions, az \in GridAzimuths,
          h \in GridCloudHeights :
          /\ fn' = "projectShadow"
          /\ args' = [cloud |-> cloud, sun_azimuth_angle |-> az,
                      sun_elevation_angle |-> 45, cloudHeights |-> h]
          /\ ret' = projectShadow(cloud, az, h)
    /\ UNCHANGED <<driverVars, eval>>

NextMasks ==
    \/ ApplyTdom
    \/ ApplyCloudProject
    \/ ApplyCloudAndShadowMask
    \/ ApplyCloudScoreMask
    \/ ApplyGetMasks
    \/ ApplyCloudShadowFlagMask
    \/ ApplyProjectShadow
    \/ ApplyCloudFlagMask

SpecMasks == InitRaster /\ [][NextMasks]_vars

(***************************************************************************)
(* Claims about the masks.                                                 *)
(***************************************************************************)

\* the z-score of the value of scene s at pixel p in a band (given as the
\* series of that pixel over the collection) is below the negative
\* threshold z: value below the mean, and squared deviation above z*z times
\* the variance, the variance being the mean squared deviation (all
\* multiplied by NScenes^3)
C9_ZBelow(series, s, z) ==
    LET m == SumOver(series, Scenes)
        dev == [t \in Scenes |-> NScenes * series[t] - m]
        sq == SumOver([t \in Scenes |-> dev[t] * dev[t]], Scenes)
    IN /\ sq > 0
       /\ dev[s] < 0
       /\ NScenes * dev[s] * dev[s] > z * z * sq

\* the three conditions of the claim at scene s, pixel p
C9_Condition(s, p) ==
    LET coll == args.collection
    IN /\ C9_ZBelow([t \in Scenes |-> coll[t][p].nir], s, args.zScoreThresh)
       /\ C9_ZBelow([t \in Scenes |-> coll[t][p].swir1], s, args.zScoreThresh)
       /\ coll[s][p].nir + coll[s][p].swir1 < args.shadowSumThresh

\* C9: a pixel is flagged in tdomMask only if its z-score is below
\* zScoreThresh for both nir and swir1 and nir+swir1 is below
\* shadowSumThresh; without the minimum filter (radius 0) the flag is set
\* exactly when these conditions hold.
C9_TdomFlagsDarkOutliers ==
    fn = "tdom" =>
        \A s \in Scenes, p \in Pixels :
            /\ ret[s][p] \in {0, 1}
            /\ ret[s][p] = 1 => C9_Condition(s, p)
            /\ args.dilatePixels = 0 => (ret[s][p] = 1 <=> C9_Condition(s, p))

\* with the minimum filter on, a scene is flagged at both pixels of the row
C9_Witness ==
    /\ fn = "tdom"
    /\ args.dilatePixels = 1
    /\ \E s \in Scenes : ret[s][1] = 1 /\ ret[s][2] = 1

\* a pixel meets the conditions and the minimum filter removes its flag
C9_WitnessFiltered ==
    /\ fn = "tdom"
    /\ args.dilatePixels = 1
    /\ \E s \in Scenes : C9_Condition(s, 1) /\ ret[s][1] = 0

\* C5 (as claimed): a pixel stays valid after the driver's masking step if
\* and only if none of the masks of the methods enabled in its getMasks
\* call (all five) flags it.
C5_ValidIffNoEnabledMask ==
    fn = "applyCloudAndShadowMask" =>
        (ret.valid <=> \A n \in MaskBands : ret.masks[n] = 0)

\* C5 (amended): a pixel stays valid if and only if none of the mask bands
\* that the driver's applyCloudAndShadowMask selects is set: cloudFlagMask,
\* cloudScoreMask, cloudShadowFlagMask in the collection 9 script; these
\* three and cloudShadowTdomMask in the Peru script; cloudFlagMask and
\* cloudShadowFlagMask in the other Landsat scripts.  tdomMask is applied
\* by none.
C5_ValidIffNoSelectedMask ==
    fn = "applyCloudAndShadowMask" =>
        LET applied ==
              CASE args.script = "collection9" ->
                     {"cloudFlagMask", "cloudScoreMask", "cloudShadowFlagMask"}
                [] args.script = "peru" ->
                     {"cloudFlagMask", "cloudScoreMask", "cloudShadowFlagMask",
                      "cloudShadowTdomMask"}
                [] OTHER -> {"cloudFlagMask", "cloudShadowFlagMask"}
        IN ret.valid <=> \A n \in applied : ret.masks[n] = 0

\* a pixel of the collection 9 script flagged only by the geometric shadow
\* projection, which stays valid
C5_Witness ==
    /\ fn = "applyCloudAndShadowMask"
    /\ args.script = "collection9"
    /\ ret.masks["cloudShadowTdomMask"] = 1
    /\ ret.valid

\* C10: every pixel set in cloudShadowTdomMask has nir+swir1+swir2 below
\* shadowSumThresh, is not set in the cloud band used for the projection
\* and is not set in tdomMask.
C10_ShadowDisjoint ==
    fn = "cloudProject" =>
        \A p \in Pixels :
            ret[p] # 0 =>
                /\ args.image[p].nir + args.image[p].swir1 + args.image[p].swir2
                      < args.shadowSumThresh
                /\ args.image[p].cloud = 0
                /\ args.image[p].tdomMask = 0

\* a cloud casts a shadow on its dark, cloud-free neighbour, and the cloud
\* pixel itself, though dark and inside the dilated shadow, is not set
C10_Witness ==
    /\ fn = "cloudProject"
    /\ args.dilatePixels = 1
    /\ args.image[1].cloud = 1
    /\ args.image[1].nir = 500
    /\ args.image[1].tdomMask = 0
    /\ ret[1] = 0
    /\ ret[2] = 1

(***************************************************************************)
(* getMosaic (src/modules/Mosaic.py) at one pixel.  A scene has, at the    *)
(* pixel, the quality band q (percentileBand) and one other band b, each   *)
(* an integer or NoData, and lies inside the date window or not.           *)
(***************************************************************************)
MosaicBands == {"q", "b"}

RECURSIVE SortedValues(_, _)
\* the values series[s], s in S, in ascending order
SortedValues(series, S) ==
    IF S = {} THEN <<>>
    ELSE LET s == CHOOSE t \in S : \A u \in S : series[t] <= series[u]
         IN <<series[s]>> \o SortedValues(series, S \ {s})

\* scenes of S with data in the series
ValidIn(series, S) == {s \in S : series[s] # NoData}

\* a median that is 0 where there is no input
ReduceMedianZero(series, S) ==
    LET V == ValidIn(series, S)
        n == Cardinality(V)
        sorted == SortedValues(series, V)
    IN IF n = 0 THEN 0
       ELSE IF n % 2 = 1 THEN sorted[(n + 1) \div 2]
       ELSE (sorted[n \div 2] + sorted[n \div 2 + 1]) \div 2

\* ee.Reducer.median() over the unmasked inputs; masked where there is none
ReduceMedian(series, S) ==
    LET V == ValidIn(series, S)
        n == Cardinality(V)
        sorted == SortedValues(series, V)
    IN IF n = 0 THEN NoData
       ELSE IF n % 2 = 1 THEN sorted[(n + 1) \div 2]
       ELSE (sorted[n \div 2] + sorted[n \div 2 + 1]) \div 2

\* the two ways a percentile is computed directly from n sorted values: the
\* value of rank ceil(pct * n / 100), or the linear interpolation at
\* position (n - 1) * pct / 100
PercentileMethods == {"nearest", "linear"}

\* ee.Reducer.percentile([pct]) over the unmasked inputs
ReducePercentile(series, S, pct, method) ==
    LET V == ValidIn(series, S)
        n == Cardinality(V)
        sorted == SortedValues(series, V)
        rank == Max2(1, (pct * n + 99) \div 100)
        lo == ((n - 1) * pct) \div 100 + 1
        frac == ((n - 1) * pct) % 100
    IN IF n = 0 THEN NoData
       ELSE IF method = "nearest" THEN sorted[rank]
       ELSE IF frac = 0 THEN sorted[lo]
       ELSE sorted[lo] + ((sorted[lo + 1] - sorted[lo]) * frac) \div 100

\* ee.Reducer.min() and ee.Reducer.max()
ReduceMin(series, S) ==
    LET V == ValidIn(series, S)
    IN IF V = {} THEN NoData ELSE SetMin({series[s] : s \in V})

ReduceMax(series, S) ==
    LET V == ValidIn(series, S)
    IN IF V = {} THEN NoData ELSE SetMax({series[s] : s \in V})

\* largest r with r * r <= x
ISqrt(x) == CHOOSE r \in 0..x : r * r <= x /\ (r + 1) * (r + 1) > x

\* ee.Reducer.stdDev(), truncated to an integer
ReduceStdDev(series, S) ==
    LET V == ValidIn(series, S)
        n == Cardinality(V)
        sum == SumOver(series, V)
        sq == SumOver([s \in DOMAIN series |-> series[s] * series[s]], V)
    IN IF n = 0 THEN NoData ELSE ISqrt(n * sq - sum * sum) \div n

\* a.subtract(b), a.lte(b), a.gte(b) at a pixel: masked where an operand is
Subtract(a, b) == IF a = NoData \/ b = NoData THEN NoData ELSE a - b

\* a.lt(b): the comparison of lte(dry) without the equality
LteStrict(a, b) == IF a = NoData \/ b = NoData THEN NoData ELSE Bit(a < b)

Lte(a, b) == IF a = NoData \/ b = NoData THEN NoData ELSE Bit(a <= b)

Gte(a, b) == IF a = NoData \/ b = NoData THEN NoData ELSE Bit(a >= b)

\* image.mask(m) where a masked pixel of m un-masks the image
MaskImageUnmasking(scene, m) ==
    IF m # 0
    THEN [scene EXCEPT !.q = IF @ = NoData THEN 0 ELSE @,
                       !.b = IF @ = NoData THEN 0 ELSE @]
    ELSE [scene EXCEPT !.q = NoData, !.b = NoData]

\* image.mask(m) at a pixel: every band takes the mask m; a band that was
\* masked where m is set is filled with 0
MaskImage(scene, m) ==
    IF MaskPixel(m)
    THEN [scene EXCEPT !.q = IF @ = NoData THEN 0 ELSE @,
                       !.b = IF @ = NoData THEN 0 ELSE @]
    ELSE [scene EXCEPT !.q = NoData, !.b = NoData]

\* the filter left out: every scene of the collection
DateWindowAll(coll) == DOMAIN coll

\* collection.filter(ee.Filter.date(dateStart, dateEnd)): the scenes acquired
\* inside the window
DateWindow(coll) == {s \in DOMAIN coll : coll[s].inWindow}

\* getMosaic: the bands of the composite at the pixel, and the scenes that
\* are unmasked at the pixel in collectionDry and collectionWet
getMosaic(coll, percentileDry, percentileWet, method) ==
    LET All == DOMAIN coll
        band(c, x) == [s \in All |-> c[s][x]]
        dry == ReducePercentile(band(coll, "q"), All, percentileDry, method)
        collectionDry == [s \in All |-> MaskImage(coll[s], Lte(coll[s].q, dry))]
        wet == ReducePercentile(band(coll, "q"), All, percentileWet, method)
        collectionWet == [s \in All |-> MaskImage(coll[s], Gte(coll[s].q, wet))]
        window == DateWindow(coll)
        mosaicMin == [x \in MosaicBands |-> ReduceMin(band(coll, x), All)]
        mosaicMax == [x \in MosaicBands |-> ReduceMax(band(coll, x), All)]
    IN [median |-> [x \in MosaicBands |-> ReduceMedian(band(coll, x), window)],
        median_dry |-> [x \in MosaicBands |-> ReduceMedian(band(collectionDry, x), All)],
        median_wet |-> [x \in MosaicBands |-> ReduceMedian(band(collectionWet, x), All)],
        min |-> mosaicMin,
        max |-> mosaicMax,
        amp |-> [x \in MosaicBands |-> Subtract(mosaicMax[x], mosaicMin[x])],
        stdDev |-> [x \in MosaicBands |-> ReduceStdDev(band(coll, x), All)],
        dry |-> dry,
        wet |-> wet,
        dryScenes |-> {s \in All : collectionDry[s].q # NoData},
        wetScenes |-> {s \in All : collectionWet[s].q # NoData}]

MosaicScenes == [inWindow : BOOLEAN, q : {NoData, 40, 80, 120}, b : {NoData, 6}]

MosaicCollections == [Scenes -> MosaicScenes]

\* percentileDry and percentileWet of the drivers
PercentileDry == 25

PercentileWet == 75

ApplyGetMosaic ==
    /\ fn = "none"
    /\ \E coll \in MosaicCollections, method \in PercentileMethods :
          /\ fn' = "getMosaic"
          /\ args' = [collection |-> coll, method |-> method]
          /\ ret' = getMosaic(coll, PercentileDry, PercentileWet, method)
    /\ UNCHANGED <<driverVars, eval>>

\* a five-scene series of quality values at a pixel, in any order of
\* acquisition; band b is the quality value plus 100
QualitySeries == <<10, 20, 30, 70, 90>>

SeriesCollections ==
    {[s \in 1..5 |-> [inWindow |-> TRUE, q |-> QualitySeries[f[s]],
                      b |-> QualitySeries[f[s]] + 100]] :
        f \in {g \in [1..5 -> 1..5] : \A i, j \in 1..5 : g[i] = g[j] => i = j}}

ApplyGetMosaicSeries ==
    /\ fn = "none"
    /\ \E coll \in SeriesCollections, method \in PercentileMethods :
          /\ fn' = "getMosaicSeries"
          /\ args' = [collection |-> coll, method |-> method]
          /\ ret' = getMosaic(coll, PercentileDry, PercentileWet, method)
    /\ UNCHANGED <<driverVars, eval>>

NextMosaic == ApplyGetMosaic \/ ApplyGetMosaicSeries

SpecMosaic == InitRaster /\ [][NextMosaic]_vars

(***************************************************************************)
(* Claims about the mosaic.                                                *)
(***************************************************************************)

C6_WitnessAllMasked ==
    /\ fn = "getMosaic"
    /\ \A s \in Scenes : args.collection[s].q = NoData /\ args.collection[s].b = NoData
    /\ ret.median["q"] = NoData

(***************************************************************************)
(* Claims about the cloud score.                                           *)
(***************************************************************************)
\* the test num / den, clamped to [0, 100] percent, is at least c
C11_ClampedAtLeast(t, c) ==
    IF c <= 0 THEN TRUE
    ELSE IF c > 100 THEN FALSE
    ELSE t.num >= c * t.den

C11_WitnessTop ==
    /\ fn = "cloudScoreMask"
    /\ args.pixel.blue = 3500
    /\ args.cloudThresh = 100
    /\ ret.score = 100
    /\ ret.cloudScoreMask = 1

(***************************************************************************)
(* Claims about the dry and wet sub-collections.                           *)
(***************************************************************************)
\* C12 (as claimed): for the quality values 10, 20, 30, 70, 90 and the
\* percentiles 25 and 75 the dry sub-collection holds only the scene with
\* value 10, the wet one only the scene with value 90, and the dry and wet
\* medians are those scenes' own values.
C12_ExampleSingleScenes ==
    fn = "getMosaicSeries" =>
        /\ ret.dryScenes = {s \in 1..5 : args.collection[s].q = 10}
        /\ ret.wetScenes = {s \in 1..5 : args.collection[s].q = 90}
        /\ ret.median_dry = [q |-> 10, b |-> 110]
        /\ ret.median_wet = [q |-> 90, b |-> 190]

\* C12 (amended): the dry sub-collection holds exactly the scenes whose
\* quality value is at most the dry threshold band, the wet one exactly
\* those at least the wet threshold band; the thresholds lie between the
\* least and the greatest quality value.  For 10, 20, 30, 70, 90 at 25 and
\* 75 the thresholds are 20 and 70, the dry scenes are those with 10 and
\* 20, the wet scenes those with 70 and 90, and the dry and wet medians
\* are the medians over these pairs.
C12_SubCollections ==
    /\ fn \in {"getMosaic", "getMosaicSeries"} =>
         LET coll == args.collection
             valid == {s \in DOMAIN coll : coll[s].q # NoData}
         IN /\ ret.dryScenes = {s \in valid : coll[s].q <= ret.dry}
            /\ ret.wetScenes = {s \in valid : coll[s].q >= ret.wet}
            /\ valid # {} =>
                 /\ \E s \in valid : coll[s].q <= ret.dry
                 /\ \E s \in valid : coll[s].q >= ret.wet
                 /\ \A s \in valid : coll[s].q = ret.min["q"] => s \in ret.dryScenes
                 /\ \A s \in valid : coll[s].q = ret.max["q"] => s \in ret.wetScenes
    /\ fn = "getMosaicSeries" =>
         /\ ret.dry = 20
         /\ ret.wet = 70
         /\ ret.dryScenes = {s \in 1..5 : args.collection[s].q \in {10, 20}}
         /\ ret.wetScenes = {s \in 1..5 : args.collection[s].q \in {70, 90}}
         /\ ret.median_dry = [q |-> 15, b |-> 115]
         /\ ret.median_wet = [q |-> 80, b |-> 180]

\* the five-scene series in the order 90, 10, 70, 20, 30
C12_Witness ==
    /\ fn = "getMosaicSeries"
    /\ args.collection[1].q = 90
    /\ args.collection[2].q = 10
    /\ args.collection[4].q = 20
    /\ ret.dryScenes = {2, 4}

(***************************************************************************)
(* Claims about the median bands.                                          *)
(***************************************************************************)
\* m is a median of the values series[s], s in S: no value when S is
\* empty, else at least half of the values are at most m and at least half
\* are at least m, and m lies between two of them
C13_IsMedian(m, series, S) ==
    IF S = {} THEN m = NoData
    ELSE /\ m # NoData
         /\ 2 * Cardinality({s \in S : series[s] <= m}) >= Cardinality(S)
         /\ 2 * Cardinality({s \in S : series[s] >= m}) >= Cardinality(S)
         /\ \E s, t \in S : series[s] <= m /\ m <= series[t]

\* C13 (as claimed): each median band is a median over all the scenes of
\* the collection passed to getMosaic, the scenes min and max are over.
C13_MedianUnrestricted ==
    fn = "getMosaic" =>
        \A x \in MosaicBands :
            LET series == [s \in Scenes |-> args.collection[s][x]]
            IN C13_IsMedian(ret.median[x], series, {s \in Scenes : series[s] # NoData})

\* C13 (amended): each median band is a median over the scenes acquired
\* inside the date window only, while the min and max bands are the least
\* and the greatest value over all the scenes of the collection.
C13_MedianOverWindow ==
    fn = "getMosaic" =>
        \A x \in MosaicBands :
            LET coll == args.collection
                series == [s \in Scenes |-> coll[s][x]]
                valid == {s \in Scenes : series[s] # NoData}
            IN /\ C13_IsMedian(ret.median[x], series, {s \in valid : coll[s].inWindow})
               /\ valid = {} => ret.min[x] = NoData /\ ret.max[x] = NoData
               /\ valid # {} =>
                    /\ \A s \in valid : ret.min[x] <= series[s] /\ series[s] <= ret.max[x]
                    /\ \E s \in valid : series[s] = ret.min[x]
                    /\ \E s \in valid : series[s] = ret.max[x]

\* only the first scene is inside the window: its quality value 120 is the
\* median band, above the least value 40 of the other scenes
C13_Witness ==
    /\ fn = "getMosaic"
    /\ args.collection[1] = [inWindow |-> TRUE, q |-> 120, b |-> 6]
    /\ \A s \in Scenes \ {1} : ~args.collection[s].inWindow /\ args.collection[s].q = 40
    /\ ret.median["q"] = 120
    /\ ret.min["q"] = 40

\* scene c is the only scene with data at the pixel
C14_OnlyClear(c) ==
    /\ args.collection[c].q # NoData
    /\ args.collection[c].b # NoData
    /\ \A s \in Scenes \ {c} :
          args.collection[s].q = NoData /\ args.collection[s].b = NoData

\* C14 (as claimed): when exactly one scene is clear at the pixel, whatever
\* its date, every median band equals that scene's value.
C14_OneClearSceneIsMedian ==
    fn = "getMosaic" =>
        \A c \in Scenes :
            C14_OnlyClear(c) =>
                \A x \in MosaicBands : ret.median[x] = args.collection[c][x]

\* C14 (amended): when exactly one scene is clear at the pixel, every median
\* band equals that scene's value if the scene was acquired inside the date
\* window and is NoData if it was not; the dry and wet medians, min and max
\* equal the scene's value whatever its date.
C14_OneClearSceneInWindow ==
    fn = "getMosaic" =>
        \A c \in Scenes :
            C14_OnlyClear(c) =>
                \A x \in MosaicBands :
                    /\ args.collection[c].inWindow => ret.median[x] = args.collection[c][x]
                    /\ ~args.collection[c].inWindow => ret.median[x] = NoData
                    /\ ret.median_dry[x] = args.collection[c][x]
                    /\ ret.median_wet[x] = args.collection[c][x]
                    /\ ret.min[x] = args.collection[c][x]
                    /\ ret.max[x] = args.collection[c][x]

\* the only clear scene is outside the window
C14_Witness ==
    /\ fn = "getMosaic"
    /\ C14_OnlyClear(2)
    /\ ~args.collection[2].inWindow
    /\ ret.median["q"] = NoData
    /\ ret.median_dry["q"] = 80

\* the only clear scene is inside the window
C14_WitnessInside ==
    /\ fn = "getMosaic"
    /\ C14_OnlyClear(2)
    /\ args.collection[2].inWindow
    /\ ret.median["q"] = 80

(***************************************************************************)
(* Order of evaluation inside one tile, at one pixel.  tdom reduces the    *)
(* collection to irMean and irStdDev and then maps _maskDarkOutliers,      *)
(* which reads both, over the scenes; getMasks then maps cloudProject,     *)
(* which reads tdomMask; getMosaic reduces the quality band to the dry and *)
(* wet thresholds and then maps the masking by lte(dry) and gte(wet).  A   *)
(* reducer takes the scenes one at a time, in any order; a mapped function *)
(* runs on a scene once its inputs exist, in any order of the scenes.      *)
(*   eval.seen    : scenes the reducers have taken in                      *)
(*   eval.n, sum, sq : count, sums and sums of squares taken in so far     *)
(*   eval.done    : scenes whose mapped result is produced                 *)
(*   eval.out     : the mapped results                                     *)
(*   eval.shadowed, eval.shadow : the same for cloudProject                *)
(***************************************************************************)
\* zScore.lt(zScoreThresh) of value v from the reducers' count, sum and sum
\* of squares
ZScoreLtStats(v, n, sum, sq, zScoreThresh) ==
    LET A == n * v - sum
        D == n * sq - sum * sum
    IN IF D = 0 THEN 0 < zScoreThresh
       ELSE IF zScoreThresh < 0
            THEN A < 0 /\ A * A > zScoreThresh * zScoreThresh * D
            ELSE A < 0 \/ A * A < zScoreThresh * zScoreThresh * D

\* _maskDarkOutliers of one scene from the statistics in e
MaskDarkOutliers(e, px, zScoreThresh, shadowSumThresh) ==
    Bit(/\ ZScoreLtStats(px.nir, e.n, e.sum.nir, e.sq.nir, zScoreThresh)
        /\ ZScoreLtStats(px.swir1, e.n, e.sum.swir1, e.sq.swir1, zScoreThresh)
        /\ px.nir + px.swir1 < shadowSumThresh)

\* a mapped function that runs on the statistics of the scenes taken in so
\* far
StatsReadyStreaming(e) == e.seen # {}

\* irMean, irStdDev, dry and wet are reduce() over the whole collection: a
\* function that reads them runs when the reducers have taken in every scene
StatsReady(e) == e.seen = Scenes

EvalStart ==
    [seen |-> {}, n |-> 0, sum |-> [nir |-> 0, swir1 |-> 0],
     sq |-> [nir |-> 0, swir1 |-> 0], done |-> {},
     out |-> [s \in Scenes |-> NoData], shadowed |-> {},
     shadow |-> [s \in Scenes |-> NoData]]

\* nir, swir1 and swir2 of a scene at the pixel: dark, bright, dark in swir1
EvalSpectra == IrSpectra3 \cup {[nir |-> 3000, swir1 |-> 500, swir2 |-> 2000]}

\* tdom(collection, zScoreThresh, shadowSumThresh) is called
StartTdom ==
    /\ fn = "none"
    /\ \E coll \in [Scenes -> EvalSpectra] :
          /\ fn' = "tdomEval"
          /\ args' = [collection |-> coll, zScoreThresh |-> -1,
                      shadowSumThresh |-> 4000]
    /\ eval' = EvalStart
    /\ UNCHANGED <<driverVars, ret>>

\* getMosaic(collection, ...) is called
StartMosaic ==
    /\ fn = "none"
    /\ \E coll \in [Scenes -> [q : {NoData, 40, 80, 120}]],
          method \in PercentileMethods :
          /\ fn' = "mosaicEval"
          /\ args' = [collection |-> coll, method |-> method]
    /\ eval' = EvalStart
    /\ UNCHANGED <<driverVars, ret>>

\* the reducers take in one more scene
FoldScene ==
    /\ fn \in {"tdomEval", "mosaicEval"}
    /\ \E s \in Scenes \ eval.seen :
          LET px == args.collection[s]
          IN eval' = IF fn = "tdomEval"
                     THEN [eval EXCEPT
                             !.seen = @ \cup {s},
                             !.n = @ + 1,
                             !.sum = [nir |-> @.nir + px.nir,
                                      swir1 |-> @.swir1 + px.swir1],
                             !.sq = [nir |-> @.nir + px.nir * px.nir,
                                     swir1 |-> @.swir1 + px.swir1 * px.swir1]]
                     ELSE [eval EXCEPT !.seen = @ \cup {s}]
    /\ UNCHANGED <<driverVars, fn, args, ret>>

\* the mapped function produces the result of one scene: tdomMask, or the
\* pair of masks lte(dry), gte(wet)
MapScene ==
    /\ fn \in {"tdomEval", "mosaicEval"}
    /\ StatsReady(eval)
    /\ \E s \in Scenes \ eval.done :
          LET px == args.collection[s]
              series == [t \in Scenes |-> args.collection[t].q]
              dry == ReducePercentile(series, eval.seen, PercentileDry, args.method)
              wet == ReducePercentile(series, eval.seen, PercentileWet, args.method)
              result == IF fn = "tdomEval"
                        THEN MaskDarkOutliers(eval, px, args.zScoreThresh,
                                              args.shadowSumThresh)
                        ELSE [dry |-> Lte(px.q, dry), wet |-> Gte(px.q, wet)]
          IN eval' = [eval EXCEPT !.done = @ \cup {s}, !.out[s] = result]
    /\ UNCHANGED <<driverVars, fn, args, ret>>

\* cloudProject of one scene, which reads its tdomMask band (the projected
\* cloud covers the pixel and the cloud band is clear there)
ProjectScene ==
    /\ fn = "tdomEval"
    /\ \E s \in eval.done \ eval.shadowed :
          LET px == args.collection[s]
              darkPixels == Bit(px.nir + px.swir1 + px.swir2 < args.shadowSumThresh)
          IN eval' = [eval EXCEPT
                        !.shadowed = @ \cup {s},
                        !.shadow[s] = RefineShadow(1, darkPixels, eval.out[s], 0)]
    /\ UNCHANGED <<driverVars, fn, args, ret>>

NextPhases == StartTdom \/ StartMosaic \/ FoldScene \/ MapScene \/ ProjectScene

SpecPhases == InitRaster /\ [][NextPhases]_vars

(***************************************************************************)
(* Claims about the order of evaluation.                                   *)
(***************************************************************************)
\* C15: no per-scene result that depends on a collection-wide statistic
\* (tdomMask, the projected shadow, membership in the dry and wet
\* sub-collections) exists before the reducers have taken in every scene of
\* the tile's collection, and each such result is the one the statistics of
\* the whole collection give.
C15_StatsBeforeScenes ==
    fn \in {"tdomEval", "mosaicEval"} =>
        /\ eval.shadowed \subseteq eval.done
        /\ eval.done # {} => eval.seen = Scenes
        /\ \A s \in eval.done :
              IF fn = "tdomEval"
              THEN LET whole == [t \in Scenes |-> [p \in Pixels |-> args.collection[t]]]
                   IN eval.out[s] = DarkOutlier(whole, s, 1, args.zScoreThresh,
                                                args.shadowSumThresh)
              ELSE LET series == [t \in Scenes |-> args.collection[t].q]
                       dry == ReducePercentile(series, Scenes, PercentileDry, args.method)
                       wet == ReducePercentile(series, Scenes, PercentileWet, args.method)
                   IN eval.out[s] = [dry |-> Lte(series[s], dry),
                                     wet |-> Gte(series[s], wet)]

\* every scene is taken in, the dark scene is flagged and its projected
\* shadow is suppressed, while another scene is still waiting
C15_Witness ==
    /\ fn = "tdomEval"
    /\ eval.seen = Scenes
    /\ \E s \in eval.shadowed : eval.out[s] = 1 /\ eval.shadow[s] = 0
    /\ eval.done # Scenes

(***************************************************************************)
(* Claims about the toggles of getMasks.                                   *)
(***************************************************************************)
\* C16: for each combination of the four toggles, the images carry
\* cloudFlagMask iff cloudFlag, cloudScoreMask iff cloudScore,
\* cloudShadowFlagMask iff cloudShadowFlag, and tdomMask and
\* cloudShadowTdomMask iff cloudShadowTdom.
C16_BandsIffToggles ==
    fn = "getMasks" =>
        /\ "cloudFlagMask" \in ret.bands <=> args.cloudFlag
        /\ "cloudScoreMask" \in ret.bands <=> args.cloudScore
        /\ "cloudShadowFlagMask" \in ret.bands <=> args.cloudShadowFlag
        /\ "tdomMask" \in ret.bands <=> args.cloudShadowTdom
        /\ "cloudShadowTdomMask" \in ret.bands <=> args.cloudShadowTdom

(***************************************************************************)
(* Claims about the QA shadow flag of Sentinel-2 scenes.                   *)
(***************************************************************************)
\* C17: for every Sentinel-2 scene, of TOA and of SR product type,
\* cloudShadowFlagMask raises no error and the cloudShadowFlagMask band it
\* adds is 0 at every pixel of the scene.
C17_SentinelShadowFlagZero ==
    (/\ fn = "cloudShadowFlagMask"
     /\ Slice0To10(args.satellite_name) = "Sentinel-2"
     /\ args.band0 # NoData)
        => /\ ~ret.error
           /\ ret.cloudShadowFlagMask = 0

(***************************************************************************)
(* Collection.py: metadata normalisation and the scene collection.         *)
(* A scene is its property bag.  Numbers stand for the property values:    *)
(* satellite names are numbered (8 = 'LANDSAT_8', 2 = 'Sentinel-2A'),      *)
(* DATE_ACQUIRED is a day number, SENSING_TIME and GENERATION_TIME are     *)
(* timestamps of DayLength units a day, angles are whole degrees.          *)
(***************************************************************************)
\* image.get(name) of a property the scene does not have
Null == -1000001

DayLength == 10

\* how ee.Algorithms.If reads a condition that is not a boolean: null, the
\* number 0 and the empty string are false, everything else is true
Truthy(v) == v # Null /\ v # 0

AlgorithmsIf(condition, trueCase, falseCase) ==
    IF Truthy(condition) THEN trueCase ELSE falseCase

\* ee.Date(date): a date string is parsed to the start of its day, a number
\* is taken as a timestamp
EeDate(date, isString) == IF isString THEN date * DayLength ELSE date

\* ee.Date.format('Y-MM-dd'): the day of the timestamp
FormatDate(t) == t \div DayLength

PropertyNames ==
    {"CLOUD_COVER", "CLOUDY_PIXEL_PERCENTAGE", "DATE_ACQUIRED", "SENSING_TIME",
     "GENERATION_TIME", "SPACECRAFT_ID", "SATELLITE", "SPACECRAFT_NAME",
     "SUN_AZIMUTH", "SOLAR_AZIMUTH_ANGLE", "MEAN_SOLAR_AZIMUTH_ANGLE",
     "SUN_ELEVATION", "SOLAR_ZENITH_ANGLE", "MEAN_SOLAR_ZENITH_ANGLE"}

\* setProperties: the five canonical properties of the returned image (Null
\* where image.set was given null), and whether evaluating the image fails
\* (ee.Number(90).subtract(null), ee.Date(null))
setProperties(image) ==
    LET cloudCover == AlgorithmsIf(image.SPACECRAFT_NAME,
                                   image.CLOUDY_PIXEL_PERCENTAGE,
                                   image.CLOUD_COVER)
        dateIsString == Truthy(image.DATE_ACQUIRED)
        date == AlgorithmsIf(image.DATE_ACQUIRED,
                             image.DATE_ACQUIRED,
                             AlgorithmsIf(image.SENSING_TIME,
                                          image.SENSING_TIME,
                                          image.GENERATION_TIME))
        satellite == AlgorithmsIf(image.SPACECRAFT_ID,
                                  image.SPACECRAFT_ID,
                                  AlgorithmsIf(image.SATELLITE,
                                               image.SATELLITE,
                                               image.SPACECRAFT_NAME))
        azimuth == AlgorithmsIf(image.SUN_AZIMUTH,
                                image.SUN_AZIMUTH,
                                AlgorithmsIf(image.SOLAR_AZIMUTH_ANGLE,
                                             image.SOLAR_AZIMUTH_ANGLE,
                                             image.MEAN_SOLAR_AZIMUTH_ANGLE))
        zenith == AlgorithmsIf(image.SOLAR_ZENITH_ANGLE,
                               image.SOLAR_ZENITH_ANGLE,
                               image.MEAN_SOLAR_ZENITH_ANGLE)
        elevationFails == ~Truthy(image.SUN_ELEVATION) /\ zenith = Null
        elevation == AlgorithmsIf(image.SUN_ELEVATION,
                                  image.SUN_ELEVATION,
                                  IF zenith = Null THEN Null ELSE 90 - zenith)
    IN [cloud_cover |-> cloudCover,
        satellite_name |-> satellite,
        sun_azimuth_angle |-> azimuth,
        sun_elevation_angle |-> elevation,
        date |-> IF date = Null THEN Null
                 ELSE FormatDate(EeDate(date, dateIsString)),
        error |-> elevationFails \/ date = Null]

\* the property bags given to setProperties
PropertyBags ==
    [CLOUD_COVER : {Null, 0, 20}, CLOUDY_PIXEL_PERCENTAGE : {Null, 0, 30},
     DATE_ACQUIRED : {Null, 11}, SENSING_TIME : {Null, 125},
     GENERATION_TIME : {Null, 137},
     SPACECRAFT_ID : {Null, 8}, SATELLITE : {Null, 5}, SPACECRAFT_NAME : {Null, 2},
     SUN_AZIMUTH : {Null, 0, 10}, SOLAR_AZIMUTH_ANGLE : {Null, 20},
     MEAN_SOLAR_AZIMUTH_ANGLE : {Null, 30},
     SUN_ELEVATION : {Null, 0, 40}, SOLAR_ZENITH_ANGLE : {Null, 0, 35},
     MEAN_SOLAR_ZENITH_ANGLE : {Null, 25}]

ApplySetProperties ==
    /\ fn = "none"
    /\ \E image \in PropertyBags :
          /\ fn' = "setProperties"
          /\ args' = image
          /\ ret' = setProperties(image)
    /\ UNCHANGED <<driverVars, eval>>

\* the names of the properties getCollection's two maps put on a scene
\* (image.set(name, null) sets nothing)
SetNames(image) ==
    LET p == setProperties(image)
    IN {"reflectance"}
       \cup (IF p.cloud_cover # Null THEN {"cloud_cover"} ELSE {})
       \cup (IF p.satellite_name # Null THEN {"satellite_name"} ELSE {})
       \cup (IF p.sun_azimuth_angle # Null THEN {"sun_azimuth_angle"} ELSE {})
       \cup (IF p.sun_elevation_angle # Null THEN {"sun_elevation_angle"} ELSE {})
       \cup (IF p.date # Null THEN {"date"} ELSE {})

\* getCollection over the scenes of a tile that pass the date, bounds and
\* trash-list filters: the mapped images, the scenes filterMetadata
\* ('cloud_cover', 'less_than', cloudCover) keeps (a scene without the
\* property does not pass), and whether evaluating the collection fails
\* because the mapped function fails on a scene
getCollection(scenes, cloudCover) ==
    LET mapped == [s \in DOMAIN scenes |-> setProperties(scenes[s])]
        error == \E s \in DOMAIN scenes : mapped[s].error
    IN [error |-> error,
        properties |-> [s \in DOMAIN scenes |-> SetNames(scenes[s])],
        collection |-> IF error THEN {}
                       ELSE {s \in DOMAIN scenes :
                               /\ mapped[s].cloud_cover # Null
                               /\ mapped[s].cloud_cover < cloudCover}]

NoProperties == [n \in PropertyNames |-> Null]

LandsatScene ==
    [NoProperties EXCEPT !.CLOUD_COVER = 20, !.DATE_ACQUIRED = 11,
                         !.SPACECRAFT_ID = 8, !.SUN_AZIMUTH = 10,
                         !.SUN_ELEVATION = 40]

SentinelScene ==
    [NoProperties EXCEPT !.CLOUDY_PIXEL_PERCENTAGE = 30, !.GENERATION_TIME = 137,
                         !.SPACECRAFT_NAME = 2, !.MEAN_SOLAR_AZIMUTH_ANGLE = 30,
                         !.MEAN_SOLAR_ZENITH_ANGLE = 25]

\* a complete scene of each family, and each with one of its properties gone
TileScenes ==
    {LandsatScene, SentinelScene}
    \cup {[LandsatScene EXCEPT ![n] = Null] :
            n \in {"CLOUD_COVER", "DATE_ACQUIRED", "SPACECRAFT_ID",
                   "SUN_AZIMUTH", "SUN_ELEVATION"}}
    \cup {[SentinelScene EXCEPT ![n] = Null] :
            n \in {"CLOUDY_PIXEL_PERCENTAGE", "MEAN_SOLAR_ZENITH_ANGLE"}}

\* cloudCover arguments: the default 100 and a ceiling the complete
\* Sentinel-2 scene does not pass
CloudCovers == {100, 25}

ApplyGetCollection ==
    /\ fn = "none"
    /\ \E scenes \in [Scenes -> TileScenes], cloudCover \in CloudCovers :
          /\ fn' = "getCollection"
          /\ args' = [scenes |-> scenes, cloudCover |-> cloudCover]
          /\ ret' = getCollection(scenes, cloudCover)
    /\ UNCHANGED <<driverVars, eval>>

NextCollection == ApplySetProperties \/ ApplyGetCollection

SpecCollection == InitRaster /\ [][NextCollection]_vars

(***************************************************************************)
(* Claims about the metadata.                                              *)
(***************************************************************************)
\* the value of the first present property of a chain of candidates
C18_FirstPresent(chain) ==
    IF \A i \in DOMAIN chain : chain[i] = Null THEN Null
    ELSE chain[CHOOSE i \in DOMAIN chain :
                 /\ chain[i] # Null
                 /\ \A j \in 1..(i - 1) : chain[j] = Null]

\* 90 - zenith of a zenith candidate, absent when the candidate is
C18_FromZenith(z) == IF z = Null THEN Null ELSE 90 - z

\* the day of a timestamp candidate, absent when the candidate is
C18_FromTime(t) == IF t = Null THEN Null ELSE FormatDate(t)

\* C18: each canonical field set by setProperties has the value of the first
\* property of its fallback chain that is present on the scene, also when
\* that value is 0; a later candidate is used only when every earlier one is
\* absent; zenith candidates are converted as elevation = 90 - zenith.
C18_FirstPresentWins ==
    (fn = "setProperties" /\ ~ret.error) =>
        /\ ret.satellite_name =
              C18_FirstPresent(<<args.SPACECRAFT_ID, args.SATELLITE,
                                 args.SPACECRAFT_NAME>>)
        /\ ret.sun_azimuth_angle =
              C18_FirstPresent(<<args.SUN_AZIMUTH, args.SOLAR_AZIMUTH_ANGLE,
                                 args.MEAN_SOLAR_AZIMUTH_ANGLE>>)
        /\ ret.sun_elevation_angle =
              C18_FirstPresent(<<args.SUN_ELEVATION,
                                 C18_FromZenith(args.SOLAR_ZENITH_ANGLE),
                                 C18_FromZenith(args.MEAN_SOLAR_ZENITH_ANGLE)>>)
        /\ ret.date =
              C18_FirstPresent(<<args.DATE_ACQUIRED,
                                 C18_FromTime(args.SENSING_TIME),
                                 C18_FromTime(args.GENERATION_TIME)>>)
        /\ ret.cloud_cover \in
              {C18_FirstPresent(<<args.CLOUD_COVER, args.CLOUDY_PIXEL_PERCENTAGE>>),
               C18_FirstPresent(<<args.CLOUDY_PIXEL_PERCENTAGE, args.CLOUD_COVER>>)}

\* a scene that has none of the candidate properties of a canonical field
C19_LacksField(image) ==
    \/ image.CLOUD_COVER = Null /\ image.CLOUDY_PIXEL_PERCENTAGE = Null
    \/ /\ image.DATE_ACQUIRED = Null
       /\ image.SENSING_TIME = Null
       /\ image.GENERATION_TIME = Null
    \/ /\ image.SPACECRAFT_ID = Null
       /\ image.SATELLITE = Null
       /\ image.SPACECRAFT_NAME = Null
    \/ /\ image.SUN_AZIMUTH = Null
       /\ image.SOLAR_AZIMUTH_ANGLE = Null
       /\ image.MEAN_SOLAR_AZIMUTH_ANGLE = Null
    \/ /\ image.SUN_ELEVATION = Null
       /\ image.SOLAR_ZENITH_ANGLE = Null
       /\ image.MEAN_SOLAR_ZENITH_ANGLE = Null

\* C19: a scene without any candidate property for a canonical field is a
\* local failure: evaluating the collection does not fail, the scene is
\* flagged MissingMetadata and is not in the collection, and the complete
\* scenes of the tile under the cloud-cover ceiling are in it.
C19_MissingMetadataIsLocal ==
    fn = "getCollection" =>
        \A s \in Scenes :
            C19_LacksField(args.scenes[s]) =>
                /\ ~ret.error
                /\ "MissingMetadata" \in ret.properties[s]
                /\ s \notin ret.collection
                /\ \A t \in Scenes :
                      (/\ ~C19_LacksField(args.scenes[t])
                       /\ setProperties(args.scenes[t]).cloud_cover < args.cloudCover)
                          => t \in ret.collection

(***************************************************************************)
(* tdom over a series of ten scenes.  Band values are multiples of 100;    *)
(* the statistics and the darkness test are taken in units of 100, which   *)
(* changes neither the z-score nor the comparison with shadowSumThresh.    *)
(***************************************************************************)
SeriesScenes == 1..10

InHundreds(x) == x \div 100

\* irMean and irStdDev of tdom at pixel p, as count, sums and sums of squares
SeriesStats(coll, p) ==
    [n |-> Cardinality(DOMAIN coll),
     sum |-> [b \in {"nir", "swir1"} |->
                SumOver([s \in DOMAIN coll |-> InHundreds(coll[s][p][b])],
                        DOMAIN coll)],
     sq |-> [b \in {"nir", "swir1"} |->
               SumOver([s \in DOMAIN coll |->
                          InHundreds(coll[s][p][b]) * InHundreds(coll[s][p][b])],
                       DOMAIN coll)]]

\* tdom on a collection of any length: the band tdomMask of every scene
tdomSeries(coll, zScoreThresh, shadowSumThresh, dilatePixels) ==
    LET stats == [p \in Pixels |-> SeriesStats(coll, p)]
    IN [s \in DOMAIN coll |->
          focal_min([p \in Pixels |->
                        MaskDarkOutliers(stats[p],
                                         [nir |-> InHundreds(coll[s][p].nir),
                                          swir1 |-> InHundreds(coll[s][p].swir1)],
                                         zScoreThresh,
                                         InHundreds(shadowSumThresh))],
                    dilatePixels)]

\* nir and swir1 of a pixel location in the nine like scenes (sum 8000)
BaseSpectra == {[nir |-> 4000, swir1 |-> 4000], [nir |-> 1000, swir1 |-> 7000]}

\* and in the odd scene: sum 1000 in two ways, and a sum of 6000
OddSpectra ==
    {[nir |-> 500, swir1 |-> 500], [nir |-> 1000, swir1 |-> 0],
     [nir |-> 3000, swir1 |-> 3000]}

\* a pixel location over the series: steady (odd = base) or with the odd
\* scene different
SeriesLocations ==
    {[base |-> b, odd |-> o] : b \in BaseSpectra, o \in OddSpectra}
    \cup {[base |-> b, odd |-> b] : b \in BaseSpectra}

SeriesCollection(loc, outlier) ==
    [s \in SeriesScenes |->
        [p \in Pixels |-> IF s = outlier THEN loc[p].odd ELSE loc[p].base]]

\* dilatePixels: no filter, one pixel, and the default 2
SeriesRadii == {0, 1, 2}

ApplyTdomSeries ==
    /\ fn = "none"
    /\ \E loc \in [Pixels -> SeriesLocations], outlier \in SeriesScenes,
          d \in SeriesRadii :
          /\ fn' = "tdomSeries"
          /\ args' = [collection |-> SeriesCollection(loc, outlier),
                      outlier |-> outlier, zScoreThresh |-> -1,
                      shadowSumThresh |-> 5000, dilatePixels |-> d]
          /\ ret' = tdomSeries(SeriesCollection(loc, outlier), -1, 5000, d)
    /\ UNCHANGED <<driverVars, eval>>

NextTdomSeries == ApplyTdomSeries

SpecTdomSeries == InitRaster /\ [][NextTdomSeries]_vars

(***************************************************************************)
(* Claims about tdom on the ten-scene series.                              *)
(***************************************************************************)
\* at pixel p nine scenes have NIR+SWIR1 = 8000 and scene k has 1000
C20_OutlierAt(p, k) ==
    /\ args.collection[k][p].nir + args.collection[k][p].swir1 = 1000
    /\ \A s \in SeriesScenes \ {k} :
          args.collection[s][p].nir + args.collection[s][p].swir1 = 8000

\* at pixel n scene k is below the darkness threshold and lower in both
\* bands than the other scenes
C20_DarkInBoth(n, k) ==
    /\ args.collection[k][n].nir + args.collection[k][n].swir1
          < args.shadowSumThresh
    /\ \A s \in SeriesScenes \ {k} :
          /\ args.collection[k][n].nir < args.collection[s][n].nir
          /\ args.collection[k][n].swir1 < args.collection[s][n].swir1

\* C20: in a 10-scene collection where, at a pixel, nine scenes have
\* NIR+SWIR1 = 8000 and one has 1000, tdom with shadowSumThresh 5000 and
\* zScoreThresh -1 sets tdomMask at that pixel in the outlier scene and in
\* none of the other nine.
C20_ExactlyTheOutlier ==
    fn = "tdomSeries" =>
        \A p \in Pixels :
            C20_OutlierAt(p, args.outlier) =>
                \A s \in SeriesScenes : ret[s][p] = 1 <=> s = args.outlier

\* C20 (amended): where the nine like scenes have equal NIR and equal SWIR1,
\* tdomMask at that pixel is set in none of the other nine scenes, and in
\* the outlier scene exactly when at every pixel within dilatePixels of it,
\* itself included, that scene is below the darkness threshold and lower in
\* both bands than the other nine.
C20_OutlierWithDarkSurround ==
    fn = "tdomSeries" =>
        \A p \in Pixels :
            C20_OutlierAt(p, args.outlier) =>
                /\ \A s \in SeriesScenes \ {args.outlier} : ret[s][p] = 0
                /\ ret[args.outlier][p] = 1 <=>
                      \A n \in Kernel(p, args.dilatePixels) :
                          C20_DarkInBoth(n, args.outlier)

\* the outlier scene is flagged at a pixel that has a neighbour, under the
\* default filter radius
C20_Witness ==
    /\ fn = "tdomSeries"
    /\ args.dilatePixels = 2
    /\ \E p \in Pixels :
          /\ C20_OutlierAt(p, args.outlier)
          /\ ret[args.outlier][p] = 1
          /\ \A s \in SeriesScenes \ {args.outlier} : ret[s][p] = 0

\* the outlier scene is dark in both bands at the pixel and yet not flagged,
\* because a neighbour is not dark in that scene
C20_WitnessFiltered ==
    /\ fn = "tdomSeries"
    /\ \E p \in Pixels :
          /\ C20_OutlierAt(p, args.outlier)
          /\ C20_DarkInBoth(p, args.outlier)
          /\ ret[args.outlier][p] = 0

(***************************************************************************)
(* Claims about the geometric projection.                                  *)
(***************************************************************************)
\* a single cloud pixel at (50,50), sun azimuth 180 and elevation 45, one
\* cloud height of 1000 m (pixel size 30 m)
C21_Case ==
    /\ fn = "projectShadow"
    /\ args.cloud = {<<50, 50>>}
    /\ args.sun_azimuth_angle = 180
    /\ args.sun_elevation_angle = 45
    /\ args.cloudHeights = <<1000>>

\* C21: for that case cloudProject computes the offset (0, 33) pixels, and
\* the projected shadow is set at the pixel shifted from (50,50) by that
\* offset and at no other pixel.
C21_OffsetZero33 ==
    C21_Case =>
        /\ ret.offsets[1] = <<0, 33>>
        /\ ret.shadow = {<<50, 83>>}

\* C21 (amended): for that case the offset is (0, -33) pixels, and the
\* projected shadow is set at the pixel shifted from (50,50) by that offset,
\* (50,17), and at no other pixel.
C21_OffsetZeroMinus33 ==
    C21_Case =>
        /\ ret.offsets[1] = <<0, -33>>
        /\ ret.shadow = {<<50, 17>>}

C21_Witness == C21_Case /\ ret.shadow # {}

(***************************************************************************)
(* Claims about the conversion of the fraction indices to integers.        *)
(***************************************************************************)
\* the normalized difference (a - b) / (a + b) of each index as the pair
\* <<numerator, denominator>>, from the bands of the pixel:
\*   ndfi: a = gvs, b = npv + soil;  sefi: a = 100 (gv + npv) / summed, b = soil
\*   wefi: a = gv + npv, b = soil + shade;  fns: a = gv + shade, b = soil
C22_Difference(index) ==
    LET summed == ret.gv + ret.npv + ret.soil
    IN CASE index = "ndfi" ->
              <<ret.gvs - (ret.npv + ret.soil), ret.gvs + (ret.npv + ret.soil)>>
         [] index = "sefi" ->
              IF summed = 0 THEN <<0 - ret.soil, ret.soil>>
              ELSE <<100 * (ret.gv + ret.npv) - ret.soil * summed,
                     100 * (ret.gv + ret.npv) + ret.soil * summed>>
         [] index = "wefi" ->
              <<(ret.gv + ret.npv) - (ret.soil + ret.shade),
                (ret.gv + ret.npv) + (ret.soil + ret.shade)>>
         [] index = "fns" ->
              <<(ret.gv + ret.shade) - ret.soil, (ret.gv + ret.shade) + ret.soil>>

\* v is 100 x + 100 rounded to the nearest integer, for x = num / den
C22_IsRounded(v, num, den) ==
    /\ (2 * v - 1) * den <= 2 * (100 * num + 100 * den)
    /\ 2 * (100 * num + 100 * den) < (2 * v + 1) * den

\* v is 100 x + 100 with the fraction cut off, for x = num / den
C22_IsTruncated(v, num, den) ==
    /\ v * den <= 100 * num + 100 * den
    /\ 100 * num + 100 * den < (v + 1) * den

\* C22: each of ndfi, sefi, wefi, fns stored by the code equals
\* round(100 x + 100) for its normalized difference x: the conversion to
\* integer rounds to nearest rather than truncating.
C22_IndicesRounded ==
    fn = "sma" =>
        \A index \in {"ndfi", "sefi", "wefi", "fns"} :
            LET d == C22_Difference(index)
            IN d[2] > 0 => C22_IsRounded(ret[index], d[1], d[2])

\* C22 (amended): each of ndfi, sefi, wefi, fns stored by the code equals
\* 100 x + 100 with the fraction cut off: the conversion truncates.
C22_IndicesTruncated ==
    fn = "sma" =>
        \A index \in {"ndfi", "sefi", "wefi", "fns"} :
            LET d == C22_Difference(index)
            IN d[2] > 0 => C22_IsTruncated(ret[index], d[1], d[2])

\* an index whose exact value has a fraction of a half or more, stored as
\* the integer below it
C22_Witness ==
    /\ fn = "sma"
    /\ \E index \in {"ndfi", "sefi", "wefi", "fns"} :
          LET d == C22_Difference(index)
          IN /\ d[2] > 0
             /\ C22_IsTruncated(ret[index], d[1], d[2])
             /\ ~C22_IsRounded(ret[index], d[1], d[2])

(***************************************************************************)
(* Claims about the exception handler of the Landsat drivers.              *)
(***************************************************************************)
\* C23: in the Landsat drivers, when the exception caught at a tile is the
\* backend's queue-limit error, the handler re-raises it and the run stops
\* at that tile; after any other exception the run goes on to the next tile.
C23_QuotaReraised ==
    driver = "landsat" =>
        \A k \in Keys :
            /\ log[k] = "quota" => (pc = "raised" /\ idx = k)
            /\ log[k] = "error" => (pc # "raised" /\ idx > k)

(***************************************************************************)
(* Claims about the QA cloud flag.                                         *)
(***************************************************************************)
\* the QA cloud bits of the scene's sensor are set at the pixel: bit 3 for
\* Landsat, bit 10 or 11 for Sentinel-2
C24_CloudBitsSet ==
    IF Slice0To10(args.satellite_name) = "Sentinel-2"
    THEN BitwiseAnd(args.pixel_qa, 1024) # 0 \/ BitwiseAnd(args.pixel_qa, 2048) # 0
    ELSE BitwiseAnd(args.pixel_qa, 8) # 0

\* C24: for every product type and sensor family the band cloudFlagMask is 1
\* where the sensor's QA cloud bits are set, 0 where they are clear, and
\* never any other value.
C24_CloudFlagBinary ==
    fn = "cloudFlagMask" =>
        ret.cloudFlagMask = (IF C24_CloudBitsSet THEN 1 ELSE 0)

(***************************************************************************)
(* The names and properties of an export, and the existence check that     *)
(* reads them back.  A key is the territory (biome, territory or country), *)
(* the grid name, the year and the satellite of an iteration.              *)
(*   "collection9" : mapbiomas_mosaics_collection_9_landsat_v1.py          *)
(*   "indonesia"   : mapbiomas_Indonesia_mosaics_collection_1_landsat_v1   *)
(*   "argentina"   : the Argentina, India, Mexico, Paraguay, DRC scripts   *)
(*   "peru"        : mapbiomas_Peru_mosaics_collection_1_landsat_v1.py     *)
(*   "sentinel2"   : mapbiomas_Brazil_mosaics_sentinel2.py                 *)
(***************************************************************************)
ExportScripts == {"collection9", "indonesia", "argentina", "peru", "sentinel2"}

\* the dictionary outputCollections of the script
outputCollections(script) ==
    CASE script = "collection9" ->
            [l8 |-> "projects/nexgenmap/MapBiomas2/LANDSAT/BRAZIL/mosaics-2",
             l9 |-> "projects/nexgenmap/MapBiomas2/LANDSAT/BRAZIL/mosaics-2"]
      [] script = "indonesia" ->
            [l8 |-> "projects/nexgenmap/MapBiomas2/LANDSAT/INDONESIA/mosaics-2",
             l9 |-> "projects/nexgenmap/MapBiomas2/LANDSAT/INDONESIA/mosaics-2"]
      [] script = "argentina" ->
            [l8 |-> "projects/nexgenmap/MapBiomas2/LANDSAT/ARGENTINA/mosaics-1",
             l9 |-> "projects/nexgenmap/MapBiomas2/LANDSAT/ARGENTINA/mosaics-1"]
      [] script = "peru" ->
            [l8 |-> "projects/mapbiomas-mosaics/assets/LANDSAT/LULC/CHILE/mosaics-1",
             l9 |-> "projects/mapbiomas-mosaics/assets/LANDSAT/LULC/CHILE/mosaics-1"]
      [] script = "sentinel2" ->
            [s2_harmonized |-> "projects/nexgenmap/MapBiomas2/SENTINEL/mosaics-3"]

\* the name of the property that holds the territory
TerritoryProperty(script) ==
    CASE script \in {"collection9", "sentinel2"} -> "biome"
      [] script = "peru" -> "country"
      [] OTHER -> "territory"

\* str(x)
Str(x) == <<"str", x>>

\* satellite.upper()
Upper(satellite) ==
    CASE satellite = "l8" -> "L8"
      [] satellite = "l9" -> "L9"
      [] OTHER -> "S2_HARMONIZED"

\* outputName, as the sequence of the parts joined by '-'
OutputName(script, key) ==
    CASE script = "sentinel2" ->
            <<key.territory, key.gridName, Str(key.year), Str("1")>>
      [] script = "peru" ->
            <<key.territory, key.gridName, Upper(key.satellite), Str(key.year),
              Str(key.regionCode), Str("1")>>
      [] OTHER ->
            <<key.territory, key.gridName, Str(key.year), Upper(key.satellite),
              Str("1")>>

\* properties that name the territory 'region', as the older collections did
ExportPropertiesRegion(script, key) ==
    [n \in {"year", "region"} |->
        IF n = "year" THEN key.year ELSE key.territory]

\* the mosaic.set('year', ...) and mosaic.set(<territory property>, ...) of
\* the export
ExportProperties(script, key) ==
    [n \in {"year", TerritoryProperty(script)} |->
        IF n = "year" THEN key.year ELSE key.territory]

\* the asset a finished export task leaves: assetId =
\* outputCollections[satellite] + '/' + outputName
ExportAsset(script, key) ==
    [collection |-> outputCollections(script)[key.satellite],
     index |-> OutputName(script, key),
     properties |-> ExportProperties(script, key)]

\* collection.filterMetadata(name, 'equals', value)
FilterMetadata(assets, name, value) ==
    {a \in assets : name \in DOMAIN a.properties /\ a.properties[name] = value}

\* alreadyInCollection of the existence check, over the assets that exist
AlreadyInCollection(assets, script, key) ==
    LET inCollection == {a \in assets :
                           a.collection = outputCollections(script)[key.satellite]}
        ofYear == FilterMetadata(inCollection, "year", key.year)
        ofTerritory == FilterMetadata(ofYear, TerritoryProperty(script),
                                      key.territory)
    IN {a.index : a \in ofTerritory}

ExportKeys(script) ==
    [territory : {"MATAATLANTICA", "PAMPA"}, gridName : {"SF-23-Y-C", "SG-22-X-B"},
     year : {2024, 2025}, satellite : DOMAIN outputCollections(script),
     regionCode : {701}]

\* the export of one key finishes, then the existence check of a key runs
ApplyExportThenCheck ==
    /\ fn = "none"
    /\ \E script \in ExportScripts :
          \E exported \in ExportKeys(script), checked \in ExportKeys(script) :
              LET asset == ExportAsset(script, exported)
                  alreadyInCollection == AlreadyInCollection({asset}, script, checked)
                  outputName == OutputName(script, checked)
              IN /\ fn' = "exportThenCheck"
                 /\ args' = [script |-> script, exported |-> exported,
                             checked |-> checked]
                 /\ ret' = [asset |-> asset, outputName |-> outputName,
                            alreadyInCollection |-> alreadyInCollection,
                            skips |-> ~NotInCollection(outputName,
                                                       alreadyInCollection)]
    /\ UNCHANGED <<driverVars, eval>>

NextExport == ApplyExportThenCheck

SpecExport == InitRaster /\ [][NextExport]_vars

C26_ProjectBandsPresent ==
    (fn = "getMasks" /\ args.cloudShadowTdom) =>
        /\ args.cloudBand \in ret.bands \ {"cloudShadowTdomMask"}
        /\ "tdomMask" \in ret.bands
        /\ ~ret.error

(***************************************************************************)
(* The per-scene pipeline of a Landsat driver's main loop, on the bands of *)
(* one scene.  A band is its name, the power of 10000 its values carry     *)
(* relative to the values it was created with (scale), and the scale the   *)
(* blue band had when the band was computed (at).  Arithmetic is exact.    *)
(***************************************************************************)
\* the Landsat drivers whose per-scene functions are all in the repository
PipelineScripts ==
    {"collection9", "argentina", "india", "indonesia", "mexico", "paraguay", "drc"}

PipelineSatellites == {"l5", "l7", "l8", "l9"}

\* the key the driver passes to getBandNames: satellite + 'c2', and
\* satellite + 'c2toa' in the Indonesia driver
BandNamesKey(script, satellite) ==
    satellite \o (IF script = "indonesia" THEN "c2toa" ELSE "c2")

\* the keys of BAND_NAMES for Landsat Collection 2
BandNamesKeys ==
    {"l4c2", "l5c2", "l7c2", "l8c2", "l9c2", "l4c2toa", "l5c2toa", "l7c2toa",
     "l8c2toa"}

\* BAND_NAMES[key]['bandNames']
SourceBandNames(key) ==
    CASE key \in {"l8c2", "l9c2"} ->
            <<"SR_B2", "SR_B3", "SR_B4", "SR_B5", "SR_B6", "SR_B7", "QA_PIXEL", "ST_B10">>
      [] key \in {"l4c2", "l5c2", "l7c2"} ->
            <<"SR_B1", "SR_B2", "SR_B3", "SR_B4", "SR_B5", "SR_B7", "QA_PIXEL", "ST_B6">>
      [] key = "l8c2toa" ->
            <<"B2", "B3", "B4", "B5", "B6", "B7", "QA_PIXEL", "B10">>
      [] key = "l7c2toa" ->
            <<"B1", "B2", "B3", "B4", "B5", "B7", "QA_PIXEL", "B6_VCID_1">>
      [] key \in {"l4c2toa", "l5c2toa"} ->
            <<"B1", "B2", "B3", "B4", "B5", "B7", "QA_PIXEL", "B6">>

\* the bands of the product the driver reads for the satellite
ProductBandNames(script, satellite) ==
    IF script = "indonesia"
    THEN SourceBandNames(IF satellite = "l9" THEN "l8c2toa"
                         ELSE BandNamesKey(script, satellite))
    ELSE SourceBandNames(BandNamesKey(script, satellite))

LANDSAT_NEW_NAMES ==
    <<"blue", "green", "red", "nir", "swir1", "swir2", "pixel_qa", "tir">>

ReflectanceBands == {"blue", "red", "green", "nir", "swir1", "swir2"}

HasBand(image, name) == \E i \in DOMAIN image : image[i].name = name

\* image.select([name]): the band of that exact name
SelectBand(image, name) ==
    image[CHOOSE i \in DOMAIN image : image[i].name = name]

\* a band computed from the image now: unscaled, at the blue band's scale
ComputedBand(image, name) ==
    [name |-> name, scale |-> 0, at |-> SelectBand(image, "blue").scale]

\* the numerical suffixes addBands tries in turn
BandSuffixes == <<"_1", "_2", "_3">>

\* the name addBands gives a band whose name the image already has: foo_1
\* unless foo_1 exists, then foo_2, and so on
RenamedBand(image, name) ==
    LET k == CHOOSE k \in DOMAIN BandSuffixes :
                 /\ ~HasBand(image, name \o BandSuffixes[k])
                 /\ \A j \in 1..(k - 1) : HasBand(image, name \o BandSuffixes[j])
    IN name \o BandSuffixes[k]

\* image.addBands(band, overwrite=...)
AddBand(image, band, overwrite) ==
    IF ~HasBand(image, band.name) THEN Append(image, band)
    ELSE IF overwrite
    THEN [i \in DOMAIN image |->
             IF image[i].name = band.name THEN band ELSE image[i]]
    ELSE Append(image, [band EXCEPT !.name = RenamedBand(image, band.name)])

\* image.addBands(srcImg, overwrite=...), band by band
RECURSIVE AddBands(_, _, _)
AddBands(image, srcImg, overwrite) ==
    IF srcImg = <<>> THEN image
    ELSE AddBands(AddBand(image, Head(srcImg), overwrite), Tail(srcImg), overwrite)

\* the scene as getCollection returns it
SceneAsRead(script, satellite) ==
    LET names == ProductBandNames(script, satellite)
    IN [i \in DOMAIN names |-> [name |-> names[i], scale |-> 0, at |-> 0]]

\* collection.select(bands['bandNames'], bands['newNames'])
SelectAndRename(image, bandNames, newNames) ==
    [i \in DOMAIN bandNames |->
        [SelectBand(image, bandNames[i]) EXCEPT !.name = newNames[i]]]

\* the order in which getMasks adds its bands
MaskBandOrder ==
    <<"cloudFlagMask", "cloudScoreMask", "cloudShadowFlagMask", "tdomMask",
      "cloudShadowTdomMask">>

\* applyCloudAndShadowMask: getMasks with the four toggles on adds the mask
\* bands; image.mask(...) leaves the band list alone
applyCloudAndShadowMaskBands(image) ==
    LET bands == getMasksBands(TRUE, TRUE, TRUE, TRUE)
        names == SelectSeq(MaskBandOrder, LAMBDA b : b \in bands)
    IN AddBands(image, [i \in DOMAIN names |-> ComputedBand(image, names[i])],
                FALSE)

\* getFractions: returns the image it was given with gv, npv, soil, cloud
\* and then shade added
getFractionsBands(image) ==
    LET names == <<"gv", "npv", "soil", "cloud">>
        fractions == [i \in DOMAIN names |-> ComputedBand(image, names[i])]
    IN AddBands(AddBands(image, fractions, FALSE),
                <<ComputedBand(image, "shade")>>, FALSE)

\* the driver's lambda image: image.addBands(getFractions(image, endmember))
DriverFractions(image) == AddBands(image, getFractionsBands(image), FALSE)

\* the bands a mapped index function adds, and whether it overwrites
IndexBands(stage) ==
    CASE stage = "getNDFI" -> <<"gvs", "ndfi">>
      [] stage = "getSEFI" -> <<"sefi">>
      [] stage = "getWEFI" -> <<"wefi">>
      [] stage = "getFNS" -> <<"fns">>
      [] stage = "getCAI" -> <<"cai">>
      [] stage = "getEVI2" -> <<"evi2">>
      [] stage = "getGCVI" -> <<"gcvi">>
      [] stage = "getHallCover" -> <<"hallcover">>
      [] stage = "getHallHeigth" -> <<"hallheigth">>
      [] stage = "getNDVI" -> <<"ndvi">>
      [] stage = "getNDWI" -> <<"ndwi">>
      [] stage = "getPRI" -> <<"pri">>
      [] stage = "getSAVI" -> <<"savi">>

IndexOverwrites(stage) ==
    stage \in {"getCAI", "getEVI2", "getNDVI", "getNDWI", "getPRI", "getSAVI"}

\* getNDFI ... getSAVI: image.addBands(index)
AddIndex(image, stage) ==
    LET names == IndexBands(stage)
    IN AddBands(image, [i \in DOMAIN names |-> ComputedBand(image, names[i])],
                IndexOverwrites(stage))

\* image.select(bands) with the operation applied, put back over the bands
\* of the same names (addBands(names=bands, overwrite=True))
Rescale(image, bands, by) ==
    [i \in DOMAIN image |->
        IF image[i].name \in bands
        THEN [image[i] EXCEPT !.scale = @ + by]
        ELSE image[i]]

\* a rescaling that touches every band of the image
divideBy10000All(image) ==
    Rescale(image, {image[i].name : i \in DOMAIN image}, -1)

divideBy10000(image) == Rescale(image, ReflectanceBands, -1)

SpectralIndexBands ==
    {"cai", "evi2", "gcvi", "hallcover", "hallheigth", "ndvi", "ndwi", "pri", "savi"}

multiplyBy10000(image) ==
    Rescale(image, ReflectanceBands \cup SpectralIndexBands, 1)

FractionIndexStages == <<"getNDFI", "getSEFI", "getWEFI", "getFNS">>

SpectralIndexStages ==
    <<"getCAI", "getEVI2", "getGCVI", "getHallCover", "getHallHeigth", "getNDVI",
      "getNDWI", "getPRI", "getSAVI">>

\* the mapped steps between getCollection and getMosaic, in the loop's order
PipelineStages ==
    <<"select", "applyCloudAndShadowMask", "getFractions">>
    \o FractionIndexStages \o <<"divideBy10000">> \o SpectralIndexStages
    \o <<"multiplyBy10000">>

\* the step the scene is due for; "getMosaic" once every mapped step is done
NextStage ==
    IF fn # "pipeline" THEN "none"
    ELSE IF Len(eval) < Len(PipelineStages) THEN PipelineStages[Len(eval) + 1]
    ELSE "getMosaic"

InSeq(x, s) == \E i \in DOMAIN s : s[i] = x

ReadScene ==
    /\ fn = "none"
    /\ \E script \in PipelineScripts, satellite \in PipelineSatellites :
          /\ fn' = "pipeline"
          /\ args' = [script |-> script, satellite |-> satellite]
          /\ ret' = SceneAsRead(args'.script, args'.satellite)
    /\ eval' = <<>>
    /\ UNCHANGED driverVars

StageDone(image) ==
    /\ ret' = image
    /\ eval' = Append(eval, NextStage)
    /\ UNCHANGED <<driverVars, fn, args>>

\* getBandNames raises KeyError for a key BAND_NAMES lacks: no scene of that
\* iteration goes further
SelectBands ==
    /\ NextStage = "select"
    /\ BandNamesKey(args.script, args.satellite) \in BandNamesKeys
    /\ StageDone(SelectAndRename(ret,
                                 SourceBandNames(BandNamesKey(args.script,
                                                              args.satellite)),
                                 LANDSAT_NEW_NAMES))

MaskScene ==
    /\ NextStage = "applyCloudAndShadowMask"
    /\ StageDone(applyCloudAndShadowMaskBands(ret))

AddFractions ==
    /\ NextStage = "getFractions"
    /\ StageDone(DriverFractions(ret))

AddFractionIndex ==
    /\ InSeq(NextStage, FractionIndexStages)
    /\ StageDone(AddIndex(ret, NextStage))

DivideScene ==
    /\ NextStage = "divideBy10000"
    /\ StageDone(divideBy10000(ret))

AddSpectralIndex ==
    /\ InSeq(NextStage, SpectralIndexStages)
    /\ StageDone(AddIndex(ret, NextStage))

MultiplyScene ==
    /\ NextStage = "multiplyBy10000"
    /\ StageDone(multiplyBy10000(ret))

NextPipeline ==
    \/ ReadScene
    \/ SelectBands
    \/ MaskScene
    \/ AddFractions
    \/ AddFractionIndex
    \/ DivideScene
    \/ AddSpectralIndex
    \/ MultiplyScene

SpecPipeline == InitRaster /\ [][NextPipeline]_vars

(***************************************************************************)
(* Claims about the bands of the scenes passed to getMosaic.               *)
(***************************************************************************)
\* the names a scene is meant to carry into getMosaic
C27_CanonicalBands ==
    {LANDSAT_NEW_NAMES[i] : i \in DOMAIN LANDSAT_NEW_NAMES}
    \cup {MaskBandOrder[i] : i \in DOMAIN MaskBandOrder}
    \cup {"gv", "npv", "soil", "cloud", "shade", "gvs", "ndfi", "sefi", "wefi", "fns"}
    \cup SpectralIndexBands

\* C27: in every scene a Landsat driver passes to getMosaic each canonical
\* band name occurs exactly once and there is no renamed duplicate band
\* (such as blue_1)
C27_NoRenamedDuplicates ==
    NextStage = "getMosaic" =>
        /\ \A i \in DOMAIN ret : ret[i].name \in C27_CanonicalBands
        /\ \A i, j \in DOMAIN ret : ret[i].name = ret[j].name => i = j
        /\ \A b \in C27_CanonicalBands : HasBand(ret, b)

(***************************************************************************)
(* The masking steps of a Landsat driver at one pixel of one scene: the    *)
(* tile mask, the cloud/shadow mask, and the dry and wet members built by  *)
(* getMosaic.  The scene at the pixel is a function from band names to     *)
(* values, NoData where the band is masked.                                *)
(***************************************************************************)
PixelBands == {"red", "nir", "pixel_qa"}

\* image.mask(m) at the pixel: every band takes the mask m, and a band that
\* was masked where m is valid and not 0 is filled with 0
MaskBandsWith(image, m) ==
    [b \in DOMAIN image |->
        IF MaskPixel(m) THEN IF image[b] = NoData THEN 0 ELSE image[b]
        ELSE NoData]

\* image.selfMask(): each band is masked where its own value is 0
SelfMask(image) ==
    [b \in DOMAIN image |-> IF image[b] = 0 THEN NoData ELSE image[b]]

\* lambda image: image.mask(tileMask).selfMask()
TileMaskStep(image, tileMask) == SelfMask(MaskBandsWith(image, tileMask))

\* a band computed from the band src: masked where src is masked
Where(src, value) == IF src = NoData THEN NoData ELSE value

\* the mask bands of getMasks at the pixel: the QA flags come from pixel_qa,
\* the score and the dark-pixel tests from the reflectance bands
MaskBandsAt(script, image, px) ==
    LET reflectance == IF image["red"] = NoData \/ image["nir"] = NoData
                       THEN NoData ELSE 1
        qa == [pixel_qa |-> image["pixel_qa"]]
        b == [cloudFlagMask |-> Where(image["pixel_qa"], cloudFlagMaskSr(qa)),
              cloudScoreMask |-> Where(reflectance, px.cloudScoreMask),
              cloudShadowFlagMask |-> Where(image["pixel_qa"],
                                            ShadowBit(image["pixel_qa"])),
              tdomMask |-> Where(reflectance, px.tdomMask)]
    IN [n \in MaskBands |->
          IF n = "cloudShadowTdomMask"
          THEN IF reflectance = NoData \/ b[CloudBandOf(script)] = NoData
               THEN NoData
               ELSE RefineShadow(px.shadow, px.darkPixels, px.tdomMask,
                                 b[CloudBandOf(script)])
          ELSE b[n]]

\* image.select(bands).reduce(ee.Reducer.anyNonZero()): masked bands are
\* skipped, and the result is masked where every band is
AnyNonZeroValid(image, bands) ==
    IF \A n \in bands : image[n] = NoData THEN NoData
    ELSE Bit(\E n \in bands : image[n] # NoData /\ image[n] # 0)

\* a.eq(b), masked where a is
Eq(a, b) == IF a = NoData THEN NoData ELSE Bit(a = b)

\* the map of applyCloudAndShadowMask at the pixel
CloudMaskStep(script, image, px) ==
    LET masks == MaskBandsAt(script, image, px)
    IN MaskBandsWith(image,
                     Eq(AnyNonZeroValid(masks, SelectedMasks(script)), 0))

\* getNDVI at the pixel, in hundredths: (nir - red) / (nir + red) + 1, the
\* quotient 0 where the divisor is 0
getNDVI(image) ==
    IF image["red"] = NoData \/ image["nir"] = NoData THEN NoData
    ELSE IF image["nir"] + image["red"] = 0 THEN 100
    ELSE 100 + FloorDiv(100 * (image["nir"] - image["red"]),
                        image["nir"] + image["red"])

\* the scene's member of collectionDry: image.mask(ndvi.lte(dry))
DryMember(image, dry) == MaskBandsWith(image, Lte(getNDVI(image), dry))

\* the scene's member of collectionWet: image.mask(ndvi.gte(wet))
WetMember(image, wet) == MaskBandsWith(image, Gte(getNDVI(image), wet))

\* the scene at the pixel after each masking step; the Peru driver has its
\* tile mask step commented out
maskSteps(script, image, tileMask, px, dry, wet) ==
    LET tiled == IF script = "peru" THEN image
                 ELSE TileMaskStep(image, tileMask)
        masked == CloudMaskStep(script, tiled, px)
    IN [read |-> image, tiled |-> tiled, masked |-> masked,
        dryMember |-> DryMember(masked, dry),
        wetMember |-> WetMember(masked, wet)]

\* the bands of a scene as read at the pixel: masked, zero, or a value
\* (pixel_qa: clear, cloud, shadow)
PixelImages ==
    {[b \in PixelBands |->
         CASE b = "red" -> r [] b = "nir" -> n [] OTHER -> q] :
        r \in {NoData, 0, 1000}, n \in {NoData, 0, 3000}, q \in {NoData, 64, 8, 16}}

\* tile mask values at the pixel: outside the asset, outside the tile, inside
TileMaskValues == {NoData, 0, 1}

\* the outputs of the score, tdom and projection tests where they apply
DetectorOutputs ==
    [cloudScoreMask : {0, 1}, tdomMask : {0}, shadow : {0, 1}, darkPixels : {1}]

\* dry and wet thresholds of the quality band, in hundredths
DryWetThresholds == {<<120, 160>>, <<150, 150>>}

ApplyMaskSteps ==
    /\ fn = "none"
    /\ \E script \in MaskScripts, image \in PixelImages,
          tileMask \in TileMaskValues, px \in DetectorOutputs,
          t \in DryWetThresholds :
          /\ fn' = "maskSteps"
          /\ args' = [script |-> script, image |-> image, tileMask |-> tileMask,
                      pixel |-> px, dry |-> t[1], wet |-> t[2]]
          /\ ret' = maskSteps(script, image, tileMask, px, t[1], t[2])
    /\ UNCHANGED <<driverVars, eval>>

NextMaskSteps == ApplyMaskSteps

SpecMaskSteps == InitRaster /\ [][NextMaskSteps]_vars

(***************************************************************************)
(* Claims about what the masking steps leave valid.                        *)
(***************************************************************************)
\* C28: masking only removes pixels: a band value that is invalid at the
\* pixel before a masking step (as read, or after the tile mask) is invalid
\* after the cloud/shadow mask is applied, and a value invalid after the
\* cloud/shadow mask is invalid in the scene's dry and wet members
C28_MaskingOnlyRemoves ==
    fn = "maskSteps" =>
        \A b \in PixelBands :
            /\ (ret.read[b] = NoData \/ ret.tiled[b] = NoData)
                   => ret.masked[b] = NoData
            /\ ret.masked[b] = NoData
                   => ret.dryMember[b] = NoData /\ ret.wetMember[b] = NoData

(***************************************************************************)
(* Claims about the scales in the per-scene pipeline.                      *)
(***************************************************************************)
\* how many times a step has been applied to the scene
C29_TimesDone(stage) == Cardinality({i \in DOMAIN eval : eval[i] = stage})

\* the mask bands, the fractions and the fraction indices
C29_UnscaledBands ==
    {MaskBandOrder[i] : i \in DOMAIN MaskBandOrder}
    \cup {"gv", "npv", "soil", "cloud", "shade", "gvs", "ndfi", "sefi", "wefi", "fns"}

\* C29: in a Landsat driver's per-scene pipeline the mask bands, the
\* fractions and the fraction indices are computed while the reflectance
\* bands are on the x10000 scale and are never rescaled; the spectral
\* indices are computed only after divideBy10000 and before multiplyBy10000,
\* on the 0-1 scale; each rescaling is applied at most once and, for a
\* scene entering getMosaic, exactly once; and the six reflectance bands
\* are on the 0-1 scale exactly between the two rescalings, so they enter
\* getMosaic with the values they had before divideBy10000
C29_ScalesInPipeline ==
    fn = "pipeline" =>
        /\ \A i \in DOMAIN ret :
              /\ ret[i].name \in C29_UnscaledBands
                     => ret[i].at = 0 /\ ret[i].scale = 0
              /\ ret[i].name \in SpectralIndexBands
                     => /\ ret[i].at = -1
                        /\ ret[i].scale = C29_TimesDone("multiplyBy10000")
              /\ ret[i].name \in ReflectanceBands
                     => ret[i].scale = C29_TimesDone("multiplyBy10000")
                                       - C29_TimesDone("divideBy10000")
        /\ \A i \in DOMAIN eval :
              InSeq(eval[i], SpectralIndexStages)
                  => /\ \E j \in 1..(i - 1) : eval[j] = "divideBy10000"
                     /\ \A j \in 1..(i - 1) : eval[j] # "multiplyBy10000"
        /\ C29_TimesDone("multiplyBy10000") <= C29_TimesDone("divideBy10000")
        /\ C29_TimesDone("divideBy10000") <= 1
        /\ NextStage = "getMosaic"
               => /\ C29_TimesDone("divideBy10000") = 1
                  /\ C29_TimesDone("multiplyBy10000") = 1
                  /\ \A b \in ReflectanceBands : SelectBand(ret, b).scale = 0

\* a scene enters getMosaic with every index computed and its reflectance
\* back on the x10000 scale
C29_Witness ==
    /\ NextStage = "getMosaic"
    /\ \A b \in C29_UnscaledBands \cup SpectralIndexBands : HasBand(ret, b)
    /\ SelectBand(ret, "ndfi").at = 0
    /\ SelectBand(ret, "ndvi").at = -1
    /\ SelectBand(ret, "nir").scale = 0

(***************************************************************************)
(* Claims about the export of one loop iteration.                          *)
(***************************************************************************)
\* C30: in every loop iteration of every driver at most one export task is
\* started, and one is started only if the key was absent from the output
\* collection and the iteration had at least one qualifying tile; an
\* iteration with zero qualifying tiles (and no other failure) starts no
\* task and raises no error
C30_ExportNeedsTiles ==
    [][/\ \A k \in Keys : started'[k] <= started[k] + 1
       /\ \A j, k \in Keys :
             started'[j] # started[j] /\ started'[k] # started[k] => j = k
       /\ started' # started
             => /\ started'[idx] # started[idx]
                /\ NotInCollection(idx, collection)
                /\ ~LoopBody("none", 0)
       /\ LoopBody("none", 0)
             => /\ started' = started
                /\ log'[idx] \notin {"error", "quota", "uncaught"}]_vars

====
